---- MODULE Spec2Model ----
(***************************************************************************)
(* Localship: the streaming protocol parser, the patch engine, the run     *)
(* orchestrator and the preview preflight (src/services/llmService.ts,     *)
(* src/services/runOrchestrator.ts, src/App.tsx,                           *)
(* src/utils/projectUtils.ts).                                             *)
(*                                                                         *)
(* Text is a sequence of lexemes.  A lexeme is a string: a white-space     *)
(* character (" ", "\n", "\r"), the line-comment opener "//", a word of    *)
(* program text ("x", "y", ...), or one tag of the protocol vocabulary     *)
(* ("<replace>", "</find>", "<tool_call>", a marker comment, ...).  No     *)
(* word contains "<" or "/", so a regular expression of the source that    *)
(* looks for a tag or for "//" matches exactly at a lexeme.  The pieces    *)
(* of a tag ("</pat" and "ch>", "<to" and "ol>") are lexemes too: two      *)
(* pieces that come to stand side by side once the text between them is    *)
(* removed join into the tag (Glue).  Positions are 0-based and -1 means   *)
(* "none", as in the source.                                               *)
(***************************************************************************)
EXTENDS Integers, Sequences, FiniteSets, TLC

VARIABLES patch, parse, retry, scoring, send, normalizer, preflight, stream, repairLoop, reader, session, requests, preview

vars == <<patch, parse, retry, scoring, send, normalizer, preflight, stream, repairLoop, reader, session, requests, preview>>

(***************************************************************************)
(* String primitives of the JavaScript runtime                             *)
(***************************************************************************)
NL == "\n"
CR == "\r"
SP == " "
CommentOpen == "//"

IsSpace(c) == c \in {SP, NL, CR}

\* const name = value; rest: the value is computed once and named in the rest
Bind(value, Rest(_)) == Rest(value)

\* String.prototype.slice(a, b) for 0 <= a
Slice(s, a, b) == SubSeq(s, a + 1, IF b > Len(s) THEN Len(s) ELSE b)

SliceFrom(s, a) == SubSeq(s, a + 1, Len(s))

RECURSIVE TrimStart(_)
TrimStart(s) ==
  IF s # <<>> /\ IsSpace(Head(s)) THEN TrimStart(Tail(s)) ELSE s

RECURSIVE TrimEnd(_)
TrimEnd(s) ==
  IF s # <<>> /\ IsSpace(s[Len(s)]) THEN TrimEnd(SubSeq(s, 1, Len(s) - 1)) ELSE s

\* String.prototype.trim
Trim(s) == TrimEnd(TrimStart(s))

StartsWithAt(src, needle, at) ==
  /\ at + Len(needle) <= Len(src)
  /\ SubSeq(src, at + 1, at + Len(needle)) = needle

\* String.prototype.indexOf(needle, from): the least position >= from, or -1
IndexOfFrom(src, needle, from) ==
  LET hits == {i \in from..(Len(src) - Len(needle)) : StartsWithAt(src, needle, i)}
  IN  IF hits = {} THEN -1 ELSE CHOOSE i \in hits : \A k \in hits : i <= k

IndexOf(src, needle) == IndexOfFrom(src, needle, 0)

RECURSIVE SplitFrom(_, _, _)
SplitFrom(s, sep, acc) ==
  IF s = <<>> THEN <<acc>>
  ELSE IF Head(s) = sep THEN <<acc>> \o SplitFrom(Tail(s), sep, <<>>)
  ELSE SplitFrom(Tail(s), sep, Append(acc, Head(s)))

\* String.prototype.split(sep) for a one-lexeme separator
Split(s, sep) == SplitFrom(s, sep, <<>>)

RECURSIVE Join(_, _)
Join(parts, sep) ==
  IF parts = <<>> THEN <<>>
  ELSE IF Len(parts) = 1 THEN parts[1]
  ELSE parts[1] \o sep \o Join(Tail(parts), sep)

RECURSIVE normalizeText(_)
normalizeText(t) ==
  IF t = <<>> THEN <<>>
  ELSE IF Head(t) = CR
       THEN IF Len(t) >= 2 /\ t[2] = NL
            THEN <<NL>> \o normalizeText(Tail(Tail(t)))
            ELSE <<NL>> \o normalizeText(Tail(t))
       ELSE <<Head(t)>> \o normalizeText(Tail(t))

(***************************************************************************)
(* applyPatches: the anchor locator                                        *)
(***************************************************************************)
RECURSIVE countFrom(_, _, _)
countFrom(src, needle, idx) ==
  LET next == IndexOfFrom(src, needle, idx)
  IN  IF next = -1 THEN 0 ELSE 1 + countFrom(src, needle, next + Len(needle))

countOccurrences(src, needle) ==
  IF needle = <<>> THEN 0 ELSE countFrom(src, needle, 0)

norm(t) == Trim(t)

\* t.replace(/\s*\/\/.*$/, '').trim(): the line up to its first "//"
stripTrailingComment(t) ==
  LET at == IndexOf(t, <<CommentOpen>>)
  IN  IF at = -1 THEN Trim(t) ELSE Trim(Slice(t, 0, at))

\* find.split("\n").filter(l => l.trim().length > 0)
findLinesOf(find) == SelectSeq(Split(find, NL), LAMBDA l : Trim(l) # <<>>)

\* The line indexes i at which every line of the finder equals the source
\* line under the line normaliser f (tier B: norm, tier C: stripTrailingComment)
LineHits(sourceLines, findLines, f(_)) ==
  {i \in 0..(Len(sourceLines) - Len(findLines)) :
     \A j \in 0..(Len(findLines) - 1) :
        f(sourceLines[i + j + 1]) = f(findLines[j + 1])}

MinOf(S) == CHOOSE i \in S : \A k \in S : i <= k

\* The hit at source line i: its character index and the source's own lines
LineHit(sourceLines, n, i) ==
  [start |-> Len(Join(SubSeq(sourceLines, 1, i), <<NL>>)) + (IF i > 0 THEN 1 ELSE 0),
   matched |-> Join(SubSeq(sourceLines, i + 1, i + n), <<NL>>),
   count |-> 1]

NoHit(n) == [start |-> -1, matched |-> <<>>, count |-> n]

\* locateAnchor with the slip of resolving several hits by taking the first
locateAnchorPickFirst(source, find) ==
  LET exactCount == countOccurrences(source, find)
      sourceLines == Split(source, NL)
      findLines == findLinesOf(find)
      hits == LineHits(sourceLines, findLines, norm)
      commentHits == LineHits(sourceLines, findLines, stripTrailingComment)
  IN  IF exactCount = 1
        THEN [start |-> IndexOf(source, find), matched |-> find, count |-> 1]
      ELSE IF Len(findLines) = 0 THEN NoHit(0)
      ELSE IF Cardinality(hits) >= 1
        THEN LineHit(sourceLines, Len(findLines), MinOf(hits))
      ELSE IF Cardinality(commentHits) >= 1
        THEN LineHit(sourceLines, Len(findLines), MinOf(commentHits))
      ELSE NoHit(0)

locateAnchor(source, find) ==
  LET exactCount == countOccurrences(source, find)
      sourceLines == Split(source, NL)
      findLines == findLinesOf(find)
      hits == LineHits(sourceLines, findLines, norm)
      commentHits == LineHits(sourceLines, findLines, stripTrailingComment)
  IN  IF exactCount = 1
        THEN [start |-> IndexOf(source, find), matched |-> find, count |-> 1]
      ELSE IF Len(findLines) = 0 THEN NoHit(0)
      ELSE IF Cardinality(hits) = 1
        THEN LineHit(sourceLines, Len(findLines), MinOf(hits))
      ELSE IF Cardinality(hits) > 1 THEN NoHit(Cardinality(hits))
      ELSE IF Cardinality(commentHits) = 1
        THEN LineHit(sourceLines, Len(findLines), MinOf(commentHits))
      ELSE IF Cardinality(commentHits) > 1 THEN NoHit(Cardinality(commentHits))
      ELSE NoHit(0)

(***************************************************************************)
(* applyPatches: operation extraction                                      *)
(***************************************************************************)
OpenTagOf ==
  [replace |-> "<replace>", insert_before |-> "<insert_before>",
   insert_after |-> "<insert_after>", delete |-> "<delete>", create |-> "<create>"]

CloseTagOf ==
  [replace |-> "</replace>", insert_before |-> "</insert_before>",
   insert_after |-> "</insert_after>", delete |-> "</delete>", create |-> "</create>"]

OpTypes == DOMAIN OpenTagOf

OpenTags == {OpenTagOf[t] : t \in OpTypes}

TypeOfOpen(sym) == CHOOSE t \in OpTypes : OpenTagOf[t] = sym

\* The three-backtick code fence
Fence == "[fence]"

\* The words made of letters only: what [a-z]* can match after a fence
AlphaWords == {"x", "y", "z", "q", "c", "tsx"}

RECURSIVE SkipAlpha(_, _)
SkipAlpha(s, at) ==
  IF at < Len(s) /\ s[at + 1] \in AlphaWords THEN SkipAlpha(s, at + 1) ELSE at

\* s.replace(/^[fence][a-z]*\n/i, '')
StripLeadingFence(s) ==
  IF s # <<>> /\ s[1] = Fence
  THEN LET at == SkipAlpha(s, 1)
       IN  IF at < Len(s) /\ s[at + 1] = NL THEN SliceFrom(s, at + 1) ELSE s
  ELSE s

\* s.replace(/[fence]$/i, '')
StripTrailingFence(s) ==
  IF s # <<>> /\ s[Len(s)] = Fence THEN Slice(s, 0, Len(s) - 1) ELSE s

\* normalizeText(body).trim(), less a leading and a trailing fence, .trim()
bodyNormOf(body) ==
  Trim(StripTrailingFence(StripLeadingFence(Trim(normalizeText(body)))))

NoMatch == [index |-> -1]

\* /<open>([\s\S]*?)<close>/.exec(s) from lastIndex: the leftmost opening
\* tag that has a closing tag behind it, up to the first such closing tag
TaggedExec(s, open, close, from) ==
  LET starts == {i \in from..(Len(s) - 1) :
                   s[i + 1] = open /\ IndexOfFrom(s, <<close>>, i + 1) # -1}
  IN  IF starts = {} THEN NoMatch
      ELSE LET i == MinOf(starts)
               k == IndexOfFrom(s, <<close>>, i + 1)
           IN  [index |-> i, end |-> k + 1, inner |-> Slice(s, i + 1, k)]

\* wrapperRegex.exec: /<(replace|insert_before|insert_after|delete|create)>([\s\S]*?)<\/\1>/gi
wrapperExec(s, types, from) ==
  LET starts == {i \in from..(Len(s) - 1) :
                   /\ s[i + 1] \in {OpenTagOf[t] : t \in types}
                   /\ IndexOfFrom(s, <<CloseTagOf[TypeOfOpen(s[i + 1])]>>, i + 1) # -1}
  IN  IF starts = {} THEN NoMatch
      ELSE LET i == MinOf(starts)
               type == TypeOfOpen(s[i + 1])
               k == IndexOfFrom(s, <<CloseTagOf[type]>>, i + 1)
           IN  [index |-> i, end |-> k + 1, type |-> type, inner |-> Slice(s, i + 1, k)]

\* /<find>([\s\S]*?)<\/find>/i.exec(inner) and the like: group 1, or "" when no match
FirstTagged(inner, open, close) ==
  LET m == TaggedExec(inner, open, close, 0)
  IN  IF m.index = -1 THEN <<>> ELSE m.inner

RECURSIVE SkipSpace(_, _)
SkipSpace(s, at) ==
  IF at < Len(s) /\ IsSpace(s[at + 1]) THEN SkipSpace(s, at + 1) ELSE at

\* siblingRegex.exec: /<find>([\s\S]*?)<\/find>\s*<with>([\s\S]*?)<\/with>/gi
\* The lazy group 1 ends at the first </find> that white space and <with>
\* follow, with a </with> behind it.
siblingEnds(s, i) ==
  {k \in (i + 1)..(Len(s) - 1) :
     /\ s[k + 1] = "</find>"
     /\ LET w == SkipSpace(s, k + 1)
        IN  /\ w < Len(s)
            /\ s[w + 1] = "<with>"
            /\ IndexOfFrom(s, <<"</with>">>, w + 1) # -1}

siblingExec(s, from) ==
  LET starts == {i \in from..(Len(s) - 1) : s[i + 1] = "<find>" /\ siblingEnds(s, i) # {}}
  IN  IF starts = {} THEN NoMatch
      ELSE LET i == MinOf(starts)
               k == MinOf(siblingEnds(s, i))
               w == SkipSpace(s, k + 1)
               e == IndexOfFrom(s, <<"</with>">>, w + 1)
           IN  [index |-> i, end |-> e + 1,
                find |-> Slice(s, i + 1, k), with |-> Slice(s, w + 1, e)]

Op(type, find, with) == [type |-> type, find |-> find, with |-> with]

\* The operation one wrapper match contributes in applyPatches (none: <<>>)
wrapperOp(m) ==
  LET findText == normalizeText(FirstTagged(m.inner, "<find>", "</find>"))
      withText == normalizeText(FirstTagged(m.inner, "<with>", "</with>"))
  IN  IF m.type = "create"
        THEN IF Trim(withText) # <<>> THEN <<Op(m.type, <<>>, withText)>> ELSE <<>>
      ELSE IF m.type = "delete"
        THEN IF Trim(findText) # <<>> THEN <<Op(m.type, findText, <<>>)>> ELSE <<>>
      ELSE IF Trim(findText) # <<>> /\ Trim(withText) # <<>>
        THEN <<Op(m.type, findText, withText)>>
      ELSE <<>>

RECURSIVE wrapperOps(_, _)
wrapperOps(s, from) ==
  LET m == wrapperExec(s, OpTypes, from)
  IN  IF m.index = -1 THEN <<>> ELSE wrapperOp(m) \o wrapperOps(s, m.end)

RECURSIVE siblingOps(_, _)
siblingOps(s, from) ==
  LET m == siblingExec(s, from)
      findText == normalizeText(m.find)
      withText == normalizeText(m.with)
  IN  IF m.index = -1 THEN <<>>
      ELSE (IF Trim(findText) # <<>> /\ Trim(withText) # <<>>
              THEN <<Op("replace", findText, withText)>> ELSE <<>>)
           \o siblingOps(s, m.end)

\* The operations of a patch body: typed wrappers, else the sibling format
parseOps(bodyNorm) ==
  Bind(wrapperOps(bodyNorm, 0), LAMBDA ops :
    IF Len(ops) = 0 THEN siblingOps(bodyNorm, 0) ELSE ops)

\* De-duplication by the key type, find, with: the first of equal operations stays
RECURSIVE dedupe(_, _)
dedupe(ops, seen) ==
  IF ops = <<>> THEN <<>>
  ELSE IF Head(ops) \in seen THEN dedupe(Tail(ops), seen)
  ELSE <<Head(ops)>> \o dedupe(Tail(ops), seen \cup {Head(ops)})

dedupedOpsOf(ops) == dedupe(ops, {})

(***************************************************************************)
(* applyPatches: execution                                                 *)
(***************************************************************************)
\* `Anchor found ${hit.count}x (ambiguous).` (the count is not kept)
ReasonAmbiguous == "Anchor found Nx (ambiguous)."
ReasonNotFound == "Anchor not found (check whitespace/indentation)."
ReasonCreateNoDiff == "Create op produced no file diff."
ReasonNoOps == "No valid operation segments found."
ReasonNoAnchors == "No anchors matched."

PatchResult(content, success, reason, opsCount, appliedOps) ==
  [content |-> content, success |-> success, reason |-> reason,
   opsCount |-> opsCount, appliedOps |-> appliedOps]

\* The locals of the loop over dedupedOps; broke: the loop was left by break
LoopStart(originalContent) ==
  [newContent |-> originalContent, allSuccessful |-> TRUE, failReason |-> "",
   appliedOps |-> 0, broke |-> FALSE]

\* The four splices of the loop body
spliceOp(type, content, hit, with) ==
  LET before == Slice(content, 0, hit.start)
      after == SliceFrom(content, hit.start + Len(hit.matched))
  IN  IF type = "replace" THEN before \o with \o after
      ELSE IF type = "insert_before" THEN before \o with \o hit.matched \o after
      ELSE IF type = "insert_after" THEN before \o hit.matched \o with \o after
      ELSE IF type = "delete" THEN before \o after
      ELSE content

\* One iteration of "for (const op of dedupedOps)"
execOp(st, op, bestEffort) ==
  LET hit == locateAnchor(st.newContent, op.find)
  IN  IF hit.count > 1
        THEN IF bestEffort
               THEN [st EXCEPT !.failReason = ReasonAmbiguous]
               ELSE [st EXCEPT !.allSuccessful = FALSE,
                               !.failReason = ReasonAmbiguous, !.broke = TRUE]
      ELSE IF hit.start = -1
        THEN IF bestEffort
               THEN [st EXCEPT !.failReason = ReasonNotFound]
               ELSE [st EXCEPT !.allSuccessful = FALSE,
                               !.failReason = ReasonNotFound, !.broke = TRUE]
      ELSE LET next == spliceOp(op.type, st.newContent, hit, op.with)
           IN  [st EXCEPT !.newContent = next,
                          !.appliedOps = IF next # st.newContent THEN @ + 1 ELSE @]

RECURSIVE runOps(_, _, _)
runOps(st, ops, bestEffort) ==
  IF ops = <<>> \/ st.broke THEN st
  ELSE runOps(execOp(st, Head(ops), bestEffort), Tail(ops), bestEffort)

\* The returns taken before the loop: a create operation, or no operation
HasEarlyReturn(dedupedOps) ==
  \/ dedupedOps = <<>>
  \/ \E i \in 1..Len(dedupedOps) : dedupedOps[i].type = "create"

earlyReturn(originalContent, dedupedOps, isFinal) ==
  LET createOps == SelectSeq(dedupedOps, LAMBDA o : o.type = "create")
      lastCreate == createOps[Len(createOps)]
  IN  IF Len(createOps) > 0
        THEN IF originalContent = lastCreate.with
               THEN IF isFinal
                      THEN PatchResult(originalContent, FALSE, ReasonCreateNoDiff, 1, 0)
                      ELSE PatchResult(originalContent, TRUE, "", 1, 0)
               ELSE PatchResult(lastCreate.with, TRUE, "", 1, 1)
      ELSE IF isFinal
        THEN PatchResult(originalContent, FALSE, ReasonNoOps, 0, 0)
        ELSE PatchResult(originalContent, TRUE, "", 0, 0)

\* loopReturn with the slip of handing back the running buffer on failure
loopReturnKeepsEdits(originalContent, st, opsCount, bestEffort) ==
  IF ~st.allSuccessful
    THEN PatchResult(st.newContent, FALSE, st.failReason, opsCount, st.appliedOps)
  ELSE IF bestEffort /\ st.appliedOps = 0
    THEN PatchResult(originalContent, FALSE,
                     IF st.failReason # "" THEN st.failReason ELSE ReasonNoAnchors,
                     opsCount, st.appliedOps)
  ELSE PatchResult(st.newContent, TRUE, "", opsCount, st.appliedOps)

\* The three returns behind the loop
loopReturn(originalContent, st, opsCount, bestEffort) ==
  IF ~st.allSuccessful
    THEN PatchResult(originalContent, FALSE, st.failReason, opsCount, st.appliedOps)
  ELSE IF bestEffort /\ st.appliedOps = 0
    THEN PatchResult(originalContent, FALSE,
                     IF st.failReason # "" THEN st.failReason ELSE ReasonNoAnchors,
                     opsCount, st.appliedOps)
  ELSE PatchResult(st.newContent, TRUE, "", opsCount, st.appliedOps)

applyPatches(content, patchBody, isFinal, bestEffort) ==
  Bind(normalizeText(content), LAMBDA originalContent :
  Bind(dedupedOpsOf(parseOps(bodyNormOf(patchBody))), LAMBDA dedupedOps :
    IF HasEarlyReturn(dedupedOps)
      THEN earlyReturn(originalContent, dedupedOps, isFinal)
      ELSE loopReturn(originalContent,
                      runOps(LoopStart(originalContent), dedupedOps, bestEffort),
                      Len(dedupedOps), bestEffort)))

(***************************************************************************)
(* parseResponse: text normalisation                                       *)
(***************************************************************************)
\* The lexemes /<\/?\s*(tool_call|toolcall|tool|function_call)\b[^>]*>/gi matches
ToolWrappers == {"<tool_call>", "</tool_call>", "<tool>", "</tool>"}

\* The lexemes /<\/?(details|summary)>/gi matches
DetailTags == {"<details>", "</details>", "<summary>", "</summary>"}

ThinkOpen == {"<thinking>", "<think>"}

ThinkClose == {"</thinking>", "</think>"}

\* The marker comments /<!--\s*(filename|patch):\s*([^\s>]+)\s*-->/ matches
Markers ==
  { [lex |-> "<!-- patch: App.tsx -->", kind |-> "patch", file |-> "App.tsx"],
    [lex |-> "<!-- patch: index.tsx -->", kind |-> "patch", file |-> "index.tsx"],
    [lex |-> "<!-- patch: src/App.tsx -->", kind |-> "patch", file |-> "src/App.tsx"],
    [lex |-> "<!-- filename: App.tsx -->", kind |-> "filename", file |-> "App.tsx"],
    [lex |-> "<!-- filename: index.tsx -->", kind |-> "filename", file |-> "index.tsx"],
    [lex |-> "<!-- filename: src/App.tsx -->", kind |-> "filename", file |-> "src/App.tsx"] }

MarkerLexemes == {m.lex : m \in Markers}

MarkerOf(sym) == CHOOSE m \in Markers : m.lex = sym

MarkerLex(kind, file) == (CHOOSE m \in Markers : m.kind = kind /\ m.file = file).lex

\* The wrapper dialects normalizeToolMarkers rewrites into marker comments
Dialects ==
  { [lex |-> "<function=patch:App.tsx>", kind |-> "patch", file |-> "App.tsx"],
    [lex |-> "<patch: App.tsx>", kind |-> "patch", file |-> "App.tsx"],
    [lex |-> "<filename: App.tsx>", kind |-> "filename", file |-> "App.tsx"] }

DialectLexemes == {d.lex : d \in Dialects}

DialectOf(sym) == CHOOSE d \in Dialects : d.lex = sym

\* The closing tags normalizeBrokenXmlClosings completes, without their ">"
BrokenClosings ==
  [x \in {"</replace", "</insert_before", "</insert_after", "</delete", "</create",
          "</find", "</with"} |->
     CASE x = "</replace" -> "</replace>"
       [] x = "</insert_before" -> "</insert_before>"
       [] x = "</insert_after" -> "</insert_after>"
       [] x = "</delete" -> "</delete>"
       [] x = "</create" -> "</create>"
       [] x = "</find" -> "</find>"
       [] x = "</with" -> "</with>"]

\* A closing tag cut after "</"
Dangling == "</"

\* The lexemes that begin with "<"
TagLexemes ==
  OpenTags \cup {CloseTagOf[t] : t \in OpTypes}
    \cup {"<find>", "</find>", "<with>", "</with>", "</patch>", "</function>", Dangling}
    \cup DOMAIN BrokenClosings \cup ToolWrappers \cup DetailTags \cup ThinkOpen
    \cup ThinkClose \cup MarkerLexemes \cup DialectLexemes \cup {"</pat", "<to"}

\* Two pieces of text that read as one tag once nothing stands between them
Joins ==
  { [left |-> "</pat", right |-> "ch>", whole |-> "</patch>"],
    [left |-> "<to", right |-> "ol>", whole |-> "<tool>"] }

\* The lexemes of a string written as a sequence of lexemes: a replace()
\* that removes text leaves a string, in which pieces that now stand
\* together are one tag
RECURSIVE Glue(_)
Glue(text) ==
  IF Len(text) < 2 THEN text
  ELSE IF \E j \in Joins : text[1] = j.left /\ text[2] = j.right
    THEN <<(CHOOSE j \in Joins : text[1] = j.left /\ text[2] = j.right).whole>>
           \o Glue(SubSeq(text, 3, Len(text)))
    ELSE <<text[1]>> \o Glue(Tail(text))

\* A warning or a failure entry: its fixed wording and the file names put into it
Note(tag, files) == [tag |-> tag, files |-> files]

RemoveAll(s, drop) == SelectSeq(s, LAMBDA c : c \notin drop)

\* text.replace(/<(?:thinking|think)>[\s\S]*?<\/(?:thinking|think)>/gi, '')
RECURSIVE stripReasoning(_)
stripReasoning(s) ==
  LET opens == {i \in 1..Len(s) : s[i] \in ThinkOpen
                                  /\ \E k \in (i + 1)..Len(s) : s[k] \in ThinkClose}
  IN  IF opens = {} THEN s
      ELSE LET i == MinOf(opens)
               k == MinOf({k \in (i + 1)..Len(s) : s[k] \in ThinkClose})
           IN  SubSeq(s, 1, i - 1) \o stripReasoning(SubSeq(s, k + 1, Len(s)))

\* The warnings of one wrapper pattern, in text order
dialectNotes(text, lexeme) ==
  LET hits == SelectSeq(text, LAMBDA c : c = lexeme)
  IN  [i \in 1..Len(hits) |->
         Note("AUTO_CORRECT: Converted wrapper to marker", <<DialectOf(lexeme).file>>)]

\* normalizeToolMarkers: the text, then the warnings it pushes. The
\* replacements run one after the other, each on the string the one before
\* it left
normalizeToolMarkers(text) ==
  LET converted == [i \in 1..Len(text) |->
                      IF text[i] \in DialectLexemes
                        THEN MarkerLex(DialectOf(text[i]).kind, DialectOf(text[i]).file)
                        ELSE text[i]]
      stripped == Glue(RemoveAll(converted, ToolWrappers))
      has(in, sym) == \E i \in 1..Len(in) : in[i] = sym
      noPatch == Glue(RemoveAll(stripped, {"</patch>"}))
  IN  [text |-> Glue(RemoveAll(noPatch, {"</function>"})),
       warnings |->
         dialectNotes(text, "<function=patch:App.tsx>")
         \o dialectNotes(text, "<patch: App.tsx>")
         \o dialectNotes(text, "<filename: App.tsx>")
         \o (IF has(stripped, "</patch>") THEN <<Note("AUTO_CORRECT: Removed </patch> wrapper.", <<>>)>> ELSE <<>>)
         \o (IF has(noPatch, "</function>") THEN <<Note("AUTO_CORRECT: Removed </function> wrapper.", <<>>)>> ELSE <<>>)]

\* A normaliser that repairs nothing
normalizeBrokenXmlClosingsOff(text) == [text |-> text, warnings |-> <<>>]

\* normalizeBrokenXmlClosings: a closing tag without ">" is completed where
\* white space, the end of the text or "<" follows; a trailing "</" is dropped
normalizeBrokenXmlClosings(text) ==
  LET closed == [i \in 1..Len(text) |->
                   IF /\ text[i] \in DOMAIN BrokenClosings
                      /\ \/ i = Len(text)
                         \/ IsSpace(text[i + 1])
                         \/ text[i + 1] \in TagLexemes
                     THEN BrokenClosings[text[i]]
                     ELSE text[i]]
      body == TrimEnd(closed)
      out == IF body # <<>> /\ body[Len(body)] = Dangling
               THEN SubSeq(body, 1, Len(body) - 1)
               ELSE closed
  IN  [text |-> out,
       warnings |-> IF out # text
                      THEN <<Note("AUTO_CORRECT: Repaired malformed XML closing tags in patch text.", <<>>)>>
                      ELSE <<>>]

\* The cleaned text of parseResponse and the warnings of the two normalisers
textCleanOf(contentStream) ==
  LET stripped == Glue(RemoveAll(Glue(RemoveAll(Glue(stripReasoning(normalizeText(contentStream))),
                                               ToolWrappers)),
                                 DetailTags))
      a == normalizeToolMarkers(stripped)
      b == normalizeBrokenXmlClosings(a.text)
  IN  [text |-> b.text, warnings |-> a.warnings \o b.warnings]

\* normalizeToolMarkers followed by normalizeBrokenXmlClosings, as
\* parseResponse runs them
normalizePatchText(text) == normalizeBrokenXmlClosings(normalizeToolMarkers(text).text).text

(***************************************************************************)
(* parseResponse: marker blocks and inline operations                      *)
(***************************************************************************)
\* A declaration: the shortest text of the model that looksLikeFullFile accepts
Decl == "const App = 1;"

\* The lexemes /(export\s+default|import\s+.+from|const\s+\w+|function\s+\w+|class\s+\w+|module\.exports\s*=)/ matches
CodeShaped == {Decl}

\* The length of a lexeme in characters
Width(sym) == IF sym = Fence THEN 3 ELSE Len(sym)

RECURSIVE Length(_)
Length(s) == IF s = <<>> THEN 0 ELSE Width(Head(s)) + Length(Tail(s))

MinFullFileLen == 12

\* looksLikeFullFile for the script files (.js, .ts, .tsx, .jsx): every file
\* name of the model ends in .tsx
looksLikeFullFile(content, filename) ==
  LET c == Trim(content)
  IN  IF Length(c) < MinFullFileLen THEN FALSE
      ELSE \E i \in 1..Len(c) : c[i] \in CodeShaped

\* The file names of the model; none carries quotes or a ./ prefix
FileNames == {"App.tsx", "index.tsx", "src/App.tsx"}

\* f.replace(/^src\//, '') for the names that start with src/
SrcStripped == [f \in {"src/App.tsx"} |-> "App.tsx"]

\* f.toLowerCase()
LowerOf ==
  [f \in FileNames |->
     CASE f = "App.tsx" -> "app.tsx"
       [] f = "index.tsx" -> "index.tsx"
       [] f = "src/App.tsx" -> "src/app.tsx"]

resolveFileKey(fileRaw, files) ==
  LET f == fileRaw
      hasSrcRoot == \E k \in DOMAIN files : k \in DOMAIN SrcStripped
      ci == {k \in DOMAIN files : LowerOf[k] = LowerOf[f]}
  IN  IF f \in DOMAIN files THEN f
      ELSE IF f \in DOMAIN SrcStripped
              /\ (SrcStripped[f] \in DOMAIN files \/ ~hasSrcRoot) THEN SrcStripped[f]
      ELSE IF ci # {} THEN CHOOSE k \in ci : TRUE
      ELSE f

\* extractBlockContent: the body of the first fence, else the trimmed block
extractBlockContent(blockRaw) ==
  LET trimmed == Trim(blockRaw)
      fenceStart == IndexOf(trimmed, <<Fence>>)
      afterFence == SliceFrom(trimmed, fenceStart + 1)
      firstNewline == IndexOf(afterFence, <<NL>>)
      bodyStart == IF firstNewline = -1 THEN fenceStart + 1
                   ELSE fenceStart + 1 + firstNewline + 1
      fenceEnd == IndexOfFrom(trimmed, <<Fence>>, bodyStart)
  IN  IF fenceStart = -1 THEN trimmed
      ELSE IF fenceEnd = -1 THEN Trim(SliceFrom(trimmed, bodyStart))
      ELSE Trim(Slice(trimmed, bodyStart, fenceEnd))

\* The first lines the langLabels set of stripLeadingLanguageLabel holds
LangLabels == {<<"tsx">>}

stripLeadingLanguageLabel(content) ==
  LET c == Trim(content)
      lines == Split(c, NL)
  IN  IF Len(lines) < 2 THEN c
      ELSE IF Trim(lines[1]) \notin LangLabels THEN c
      ELSE Trim(Join(SubSeq(lines, 2, Len(lines)), <<NL>>))

extractFirstWith(text) == Trim(normalizeText(FirstTagged(text, "<with>", "</with>")))

extractFirstWithLoose(text) ==
  LET strict == extractFirstWith(text)
      start == IndexOf(text, <<"<with>">>)
      tail == SliceFrom(text, start + 1)
      end == IndexOf(tail, <<"</with>">>)
      body == IF end = -1 THEN tail ELSE Slice(tail, 0, end)
  IN  IF strict # <<>> THEN strict
      ELSE IF start = -1 THEN <<>>
      ELSE Trim(normalizeText(body))

\* The operation one <replace> wrapper contributes in extractInlineReplaceOps
inlineWrapperOp(m) ==
  LET findText == Trim(normalizeText(FirstTagged(m.inner, "<find>", "</find>")))
      withText == Trim(normalizeText(FirstTagged(m.inner, "<with>", "</with>")))
  IN  IF findText # <<>> /\ withText # <<>>
        THEN <<Op("replace", findText, withText)>> ELSE <<>>

RECURSIVE inlineWrapperOps(_, _)
inlineWrapperOps(s, from) ==
  LET m == wrapperExec(s, {"replace"}, from)
  IN  IF m.index = -1 THEN <<>> ELSE inlineWrapperOp(m) \o inlineWrapperOps(s, m.end)

RECURSIVE wrapperRanges(_, _)
wrapperRanges(s, from) ==
  LET m == wrapperExec(s, {"replace"}, from)
  IN  IF m.index = -1 THEN {}
      ELSE {[start |-> m.index, end |-> m.end]} \cup wrapperRanges(s, m.end)

RECURSIVE inlineSiblingOps(_, _, _)
inlineSiblingOps(s, from, ranges) ==
  LET m == siblingExec(s, from)
      findText == Trim(normalizeText(m.find))
      withText == Trim(normalizeText(m.with))
      isInsideWrapper == \E r \in ranges : m.index >= r.start /\ m.index < r.end
  IN  IF m.index = -1 THEN <<>>
      ELSE (IF ~isInsideWrapper /\ findText # <<>> /\ withText # <<>>
              THEN <<Op("replace", findText, withText)>> ELSE <<>>)
           \o inlineSiblingOps(s, m.end, ranges)

extractInlineReplaceOps(text) ==
  LET bodyNorm == bodyNormOf(text)
  IN  inlineWrapperOps(bodyNorm, 0)
        \o inlineSiblingOps(bodyNorm, 0, wrapperRanges(bodyNorm, 0))

dedupeInlineOps(ops) == dedupe(ops, {})

\* One op as buildPatchBodyFromInlineOps writes it
inlineOpText(op) ==
  <<"<replace>", NL, "<find>", NL>> \o op.find \o <<NL, "</find>", NL, "<with>", NL>>
    \o op.with \o <<NL, "</with>", NL, "</replace>">>

buildPatchBodyFromInlineOps(ops) ==
  Join([i \in 1..Len(ops) |-> inlineOpText(ops[i])], <<NL, NL>>)

(***************************************************************************)
(* parseResponse: fallback inference for text without markers              *)
(***************************************************************************)
\* A file name on a line of its own, and the label that may precede it
NameLexemes == {"App.tsx", "index.tsx"}

FileLabel == "file:"

\* A text /export\s+default|React\.FC|useState\(|function\s+[A-Z]/ matches
ExportDefault == "export default App;"

AppShaped == {ExportDefault}

\* A whole component file in one lexeme: import React ... export default App;
RawApp ==
  "import React from 'react'; const App = () => { return (<div className='p-4 text-sm font-medium'>ok</div>); }; export default App;"

MinRawAppLen == 120

RECURSIVE SkipToNewline(_, _)
SkipToNewline(s, at) ==
  IF at < Len(s) /\ s[at + 1] # NL THEN SkipToNewline(s, at + 1) ELSE at

\* [fence][^\n]*\n([\s\S]*?)\n[fence] at position i: the body and the end, if any
fenceAt(s, i) ==
  LET nl == SkipToNewline(s, i + 1)
      close == IndexOfFrom(s, <<NL, Fence>>, nl + 1)
  IN  IF i < Len(s) /\ s[i + 1] = Fence /\ nl < Len(s) /\ close # -1
        THEN [index |-> i, end |-> close + 2, body |-> Slice(s, nl + 1, close)]
        ELSE NoMatch

\* The line of position k holds white space only before k; -1 otherwise
RECURSIVE lineStartOf(_, _)
lineStartOf(s, k) ==
  IF k = 0 \/ s[k] = NL THEN k
  ELSE IF IsSpace(s[k]) THEN lineStartOf(s, k - 1)
  ELSE -1

RECURSIVE skipBack(_, _)
skipBack(s, k) == IF k > 0 /\ IsSpace(s[k]) THEN skipBack(s, k - 1) ELSE k

\* One match of the two patterns of detectNamedFenceBlocks with the name at k:
\* the name opens a line (after the label, for the first pattern), white
\* space with a line break follows, then a closed fence
namedFenceAt(s, k, labelled) ==
  LET l == skipBack(s, k)
      before == IF labelled
                  THEN IF l > 0 /\ s[l] = FileLabel THEN lineStartOf(s, l - 1) ELSE -1
                  ELSE lineStartOf(s, k)
      ws == SkipSpace(s, k + 1)
      hasBreak == \E n \in (k + 2)..ws : s[n] = NL
      f == fenceAt(s, ws)
  IN  IF k < Len(s) /\ s[k + 1] \in NameLexemes /\ before # -1 /\ hasBreak /\ f.index # -1
        THEN [index |-> before, end |-> f.end, file |-> s[k + 1], body |-> f.body]
        ELSE NoMatch

RECURSIVE namedFenceBlocks(_, _, _, _)
namedFenceBlocks(s, from, labelled, files) ==
  LET hits == {k \in from..(Len(s) - 1) :
                 namedFenceAt(s, k, labelled).index # -1
                 /\ namedFenceAt(s, k, labelled).index >= from}
  IN  IF hits = {} THEN <<>>
      ELSE LET m == namedFenceAt(s, MinOf(hits), labelled)
               content == Trim(normalizeText(m.body))
           IN  (IF content # <<>>
                  THEN <<[file |-> resolveFileKey(m.file, files), content |-> content]>>
                  ELSE <<>>)
               \o namedFenceBlocks(s, m.end, labelled, files)

\* detectNamedFenceBlocks: the labelled pattern first, then the bare one; no
\* match of the one is a match of the other, so the seen set drops nothing
detectNamedFenceBlocks(text, files) ==
  namedFenceBlocks(text, 0, TRUE, files) \o namedFenceBlocks(text, 0, FALSE, files)

RECURSIVE fenceBodies(_, _)
fenceBodies(s, from) ==
  LET hits == {i \in from..(Len(s) - 1) : fenceAt(s, i).index # -1}
  IN  IF hits = {} THEN <<>>
      ELSE LET m == fenceAt(s, MinOf(hits))
           IN  <<Trim(normalizeText(m.body))>> \o fenceBodies(s, m.end)

\* The first of the longest bodies
RECURSIVE longest(_, _)
longest(bodies, best) ==
  IF bodies = <<>> THEN best
  ELSE longest(Tail(bodies),
               IF Length(Head(bodies)) > Length(best) THEN Head(bodies) ELSE best)

NoTarget == [file |-> "", content |-> <<>>]

\* inferSingleFenceTarget: the texts of the model hold no html, createRoot,
\* tailwind or module.exports, which leaves the component branch
inferSingleFenceTarget(text, files) ==
  LET best == longest(fenceBodies(text, 0), <<>>)
      tsx == {k \in DOMAIN files : k \in {"App.tsx", "index.tsx", "src/App.tsx"}}
      target == IF \E i \in 1..Len(best) : best[i] \in AppShaped \cup {RawApp}
                  THEN IF "App.tsx" \in DOMAIN files THEN "App.tsx"
                       ELSE IF tsx # {} THEN CHOOSE k \in tsx : TRUE ELSE ""
                  ELSE ""
  IN  IF best = <<>> \/ target = "" THEN NoTarget
      ELSE [file |-> target, content |-> best]

\* inferRawAppTsxFromText: a component file on lines of its own
inferRawAppTsxFromText(text, files) ==
  LET normalized == normalizeText(text)
      hits == {i \in 1..Len(normalized) :
                 /\ normalized[i] = RawApp
                 /\ i = 1 \/ normalized[i - 1] = NL
                 /\ i = Len(normalized) \/ normalized[i + 1] = NL}
  IN  IF "App.tsx" \notin DOMAIN files \/ files["App.tsx"] = <<>> THEN NoTarget
      ELSE IF hits = {} THEN NoTarget
      ELSE IF Width(RawApp) < MinRawAppLen THEN NoTarget
      ELSE [file |-> "App.tsx", content |-> <<RawApp>>]

\* detectThreeMisuse: the three lexemes its patterns match
ThreeScriptTag == "<script src='three.min.js'>"

ThreeCdn == "https://unpkg.com/three"

ThreeExamples == "from 'three/examples/jsm/"

detectThreeMisuse(text) ==
  LET has(sym) == \E i \in 1..Len(text) : text[i] = sym
  IN  [hasScriptTag |-> has(ThreeScriptTag),
       hasCdnReference |-> has(ThreeCdn),
       hasExamplesImport |-> has(ThreeExamples)]

(***************************************************************************)
(* parseResponse: the parser state and its steps                           *)
(***************************************************************************)
\* files[k] ?? '' and files[k] || ""
FilesGet(files, k) == IF k \in DOMAIN files THEN files[k] ELSE <<>>

\* a.localeCompare(b) on the file names of the model
FileRank ==
  [f \in FileNames |->
     CASE f = "App.tsx" -> 1 [] f = "index.tsx" -> 2 [] f = "src/App.tsx" -> 3]

RECURSIVE SortedFiles(_)
SortedFiles(S) ==
  IF S = {} THEN <<>>
  ELSE LET f == CHOOSE x \in S : \A y \in S : FileRank[x] <= FileRank[y]
       IN  <<f>> \o SortedFiles(S \ {f})

changes(P, fileKey, nextContent) == FilesGet(P.newFiles, fileKey) # nextContent

\* A write that does not record the file among the touched files
setFileIfChangedUntracked(P, fileKey, nextContent) ==
  IF ~changes(P, fileKey, nextContent) THEN P
  ELSE [P EXCEPT !.newFiles = (fileKey :> nextContent) @@ @]

setFileIfChanged(P, fileKey, nextContent) ==
  IF ~changes(P, fileKey, nextContent) THEN P
  ELSE [P EXCEPT !.newFiles = (fileKey :> nextContent) @@ @,
                 !.touchedFiles = @ \cup {fileKey}]

warn(P, tag, files) == [P EXCEPT !.warnings = Append(@, Note(tag, files))]

fail(P, tag, files) == [P EXCEPT !.failedPatches = Append(@, Note(tag, files))]

hint(P, h) == [P EXCEPT !.repairHints = Append(@, h)]

usedFallbackAt(P) == [P EXCEPT !.usedFallback = TRUE, !.parserStage = "fallback"]

hasAnyPatchTags(text) == \E i \in 1..Len(text) : text[i] \in OpenTags

hasCreateTag(text) == \E i \in 1..Len(text) : text[i] = "<create>"

\* markerRegex.exec in a loop: the markers of the text in text order
markersOf(text) ==
  LET at == SelectSeq([i \in 1..Len(text) |-> i], LAMBDA i : text[i] \in MarkerLexemes)
  IN  [n \in 1..Len(at) |->
         [kind |-> MarkerOf(text[at[n]]).kind, file |-> MarkerOf(text[at[n]]).file,
          index |-> at[n] - 1]]

InlineScoreWeight == 100

score(result) ==
  result.appliedOps * InlineScoreWeight
    + (IF result.opsCount = result.appliedOps THEN 1 ELSE 0)

\* The files a best-effort run of the patch changes, with the run's result
inlineCandidates(files, patchBody, isFinal) ==
  {c \in {[file |-> f, result |-> applyPatches(files[f], patchBody, isFinal, TRUE)] :
            f \in DOMAIN files} :
     c.result.success /\ c.result.appliedOps > 0 /\ c.result.content # files[c.file]}

topCandidates(candidates) ==
  {c \in candidates : \A d \in candidates : score(d.result) <= score(c.result)}

\* A rescue that settles a tie for the first file by name
applyTopCandidateFirst(P, candidates, appliedTag, noOpTag) ==
  LET top == topCandidates(candidates)
      chosen == CHOOSE c \in top : \A d \in top : FileRank[c.file] <= FileRank[d.file]
      P1 == [P EXCEPT !.inlinePatchCandidateFile = chosen.file]
  IN  IF changes(P1, chosen.file, chosen.result.content)
        THEN warn([usedFallbackAt(setFileIfChanged(P1, chosen.file, chosen.result.content))
                     EXCEPT !.inlinePatchApplied = TRUE,
                            !.appliedOpsTotal = @ + chosen.result.appliedOps],
                  appliedTag, <<chosen.file>>)
      ELSE warn(P1, noOpTag, <<chosen.file>>)

\* The candidates.length > 0 branch of both inline rescues
applyTopCandidate(P, candidates, appliedTag, noOpTag) ==
  LET top == topCandidates(candidates)
      chosen == CHOOSE c \in top : TRUE
      P1 == [P EXCEPT !.inlinePatchCandidateFile = chosen.file]
  IN  IF Cardinality(top) > 1
        THEN fail(hint([P EXCEPT !.inlinePatchAmbiguous = TRUE], "ambiguous_target"),
                  "PROTOCOL_VIOLATION: Inline patch target ambiguous",
                  SortedFiles({c.file : c \in top}))
      ELSE IF changes(P1, chosen.file, chosen.result.content)
        THEN warn([usedFallbackAt(setFileIfChanged(P1, chosen.file, chosen.result.content))
                     EXCEPT !.inlinePatchApplied = TRUE,
                            !.appliedOpsTotal = @ + chosen.result.appliedOps],
                  appliedTag, <<chosen.file>>)
      ELSE warn(P1, noOpTag, <<chosen.file>>)

dedupeWarning(P, inlineOpsRaw, inlineOps) ==
  IF Len(inlineOpsRaw) > Len(inlineOps)
    THEN warn(P, "AUTO_CORRECT: Deduplicated repeated inline patch op(s).", <<>>)
    ELSE P

RECURSIVE applyFenceBlocks(_, _, _)
applyFenceBlocks(P, blocks, changedCount) ==
  IF blocks = <<>> THEN [state |-> P, changedCount |-> changedCount]
  ELSE applyFenceBlocks(setFileIfChanged(P, Head(blocks).file, Head(blocks).content),
                        Tail(blocks),
                        IF changes(P, Head(blocks).file, Head(blocks).content)
                          THEN changedCount + 1 ELSE changedCount)

\* markers.length === 0, final: fenced filename blocks were inferred
markerlessNamedFences(P, inferredBlocks) ==
  LET r == applyFenceBlocks(usedFallbackAt(P), inferredBlocks, 0)
  IN  IF r.changedCount > 0
        THEN warn(r.state, "AUTO_INFER: Applied fenced filename block(s) without markers.", <<>>)
      ELSE IF P.isFinal
        THEN warn(r.state, "NO_OP: Inferred fenced blocks matched existing content.", <<>>)
      ELSE r.state

\* markers.length === 0, final: patch tags and no <create>
markerlessInline(P) ==
  Bind(P.textClean, LAMBDA text :
  Bind(extractInlineReplaceOps(text), LAMBDA inlineOpsRaw :
  Bind(dedupeInlineOps(inlineOpsRaw), LAMBDA inlineOps :
  Bind(IF Len(inlineOps) > 0 THEN buildPatchBodyFromInlineOps(inlineOps) ELSE text,
       LAMBDA normalizedInlinePatch :
  Bind(dedupeWarning([P EXCEPT !.inlinePatchAttempted = TRUE], inlineOpsRaw, inlineOps),
       LAMBDA P1 :
  Bind(inlineCandidates(P1.newFiles, normalizedInlinePatch, P.isFinal), LAMBDA candidates :
  Bind(extractFirstWithLoose(text), LAMBDA withFallback :
  Bind(inferRawAppTsxFromText(text, P1.newFiles), LAMBDA rawApp :
    IF candidates # {}
      THEN applyTopCandidate(P1, candidates,
                             "AUTO_APPLY: Markerless inline patch applied.",
                             "NO_OP: Patch produced no content changes.")
    ELSE IF withFallback # <<>> /\ "App.tsx" \in DOMAIN P1.newFiles
            /\ looksLikeFullFile(withFallback, "App.tsx")
      THEN warn([usedFallbackAt(setFileIfChanged(P1, "App.tsx", withFallback))
                   EXCEPT !.inlinePatchApplied =
                            IF changes(P1, "App.tsx", withFallback) THEN TRUE ELSE @],
                "AUTO_INFER: Applied markerless <with> fallback to App.tsx.", <<>>)
    ELSE IF rawApp.file # ""
      THEN warn([usedFallbackAt(setFileIfChanged(P1, rawApp.file, rawApp.content))
                   EXCEPT !.inlinePatchApplied =
                            IF changes(P1, rawApp.file, rawApp.content) THEN TRUE ELSE @],
                "AUTO_INFER: Applied markerless raw App.tsx content.", <<>>)
    ELSE IF P.isFinal
      THEN hint(fail(P1, "PROTOCOL_VIOLATION: Patch blocks missing markers and no matching file.", <<>>),
                "missing_markers")
    ELSE P1))))))))

\* markers.length === 0, final: no patch tags, or a <create>
markerlessOther(P) ==
  LET text == P.textClean
      inferredSingle == inferSingleFenceTarget(text, P.newFiles)
      rawApp == inferRawAppTsxFromText(text, P.newFiles)
  IN  IF inferredSingle.file # ""
        THEN warn(usedFallbackAt(setFileIfChanged(P, inferredSingle.file, inferredSingle.content)),
                  "AUTO_INFER: Applied largest fenced block.", <<inferredSingle.file>>)
      ELSE IF rawApp.file # ""
        THEN warn(usedFallbackAt(setFileIfChanged(P, rawApp.file, rawApp.content)),
                  "AUTO_INFER: Applied markerless raw App.tsx content.", <<>>)
      ELSE IF ~P.isFinal THEN P
      ELSE IF hasCreateTag(text)
        THEN hint(fail(P, "PROTOCOL_VIOLATION: Create op found but no filename marker.", <<>>),
                  "create_without_filename_marker")
      ELSE hint(fail(P, "PROTOCOL_VIOLATION: No marker blocks found.", <<>>), "no_marker_blocks")

\* A markerless branch that infers edits on intermediate parses too
markerlessEager(P) ==
  Bind(detectNamedFenceBlocks(P.textClean, P.newFiles), LAMBDA inferredBlocks :
    IF Len(inferredBlocks) > 0 THEN markerlessNamedFences(P, inferredBlocks)
    ELSE IF hasAnyPatchTags(P.textClean) /\ ~hasCreateTag(P.textClean) THEN markerlessInline(P)
    ELSE markerlessOther(P))

\* The branch of parseResponse for a text without markers
markerless(P) ==
  Bind(detectNamedFenceBlocks(P.textClean, P.newFiles), LAMBDA inferredBlocks :
    IF ~P.isFinal THEN P
    ELSE IF Len(inferredBlocks) > 0 THEN markerlessNamedFences(P, inferredBlocks)
    ELSE IF hasAnyPatchTags(P.textClean) /\ ~hasCreateTag(P.textClean) THEN markerlessInline(P)
    ELSE markerlessOther(P))

\* The hint patch_failed:${fileKey}
PatchFailedHint ==
  [f \in FileNames |->
     CASE f = "App.tsx" -> "patch_failed:App.tsx"
       [] f = "index.tsx" -> "patch_failed:index.tsx"
       [] f = "src/App.tsx" -> "patch_failed:src/App.tsx"]

\* A failed patch under a marker: the <with> text taken as the whole file,
\* else, on the final pass, the failure entry
patchFailed(P, fileKey, cleanBlockContent, result, note) ==
  LET withFallback == extractFirstWith(cleanBlockContent)
  IN  IF withFallback # <<>> /\ looksLikeFullFile(withFallback, fileKey)
        THEN setFileIfChanged(IF note
                                THEN warn(P, "AUTO_CORRECT: patch failure; used <with> as full file.", <<fileKey>>)
                                ELSE P,
                              fileKey, withFallback)
      ELSE IF P.isFinal
        THEN hint(fail(P, result.reason, <<fileKey>>), PatchFailedHint[fileKey])
      ELSE P

\* applyPatches from the file's current state, strictly, under a marker
patchUnderMarker(P, fileKey, cleanBlockContent, note) ==
  Bind(applyPatches(FilesGet(P.newFiles, fileKey), cleanBlockContent, P.isFinal, FALSE),
       LAMBDA result :
    IF result.success
      THEN IF changes(P, fileKey, result.content)
             THEN [setFileIfChanged(P, fileKey, result.content)
                     EXCEPT !.appliedOpsTotal = @ + result.appliedOps]
             ELSE warn(P, "NO_OP: Patch produced no content changes.", <<fileKey>>)
      ELSE patchFailed(P, fileKey, cleanBlockContent, result, note))

\* The block of markers[i]: its file, its cleaned content and what it holds
blockOf(P, i) ==
  LET text == P.textClean
      cur == P.markers[i]
      start == cur.index + 1
      end == IF i < Len(P.markers) THEN P.markers[i + 1].index ELSE Len(text)
      blockRaw == Trim(Slice(text, start, end))
      hasFence == \E n \in 1..Len(blockRaw) : blockRaw[n] = Fence
      extracted == extractBlockContent(blockRaw)
      cleanBlockContent == IF hasFence THEN extracted ELSE stripLeadingLanguageLabel(extracted)
  IN  [kind |-> cur.kind, fileKey |-> resolveFileKey(cur.file, P.newFiles),
       hasFence |-> hasFence, cleanBlockContent |-> cleanBlockContent,
       hasPatchTags |-> hasAnyPatchTags(cleanBlockContent)]

\* One turn of the marker loop, for markers[i]
markerBlock(P, i) ==
  Bind(blockOf(P, i), LAMBDA b :
  Bind(b.fileKey, LAMBDA fileKey :
  Bind(b.cleanBlockContent, LAMBDA cleanBlockContent :
  Bind([file |-> fileKey, body |-> Trim(cleanBlockContent)], LAMBDA patchSignature :
      IF b.kind = "filename"
        THEN IF b.hasPatchTags
               THEN patchUnderMarker(
                      warn(P, "AUTO_CORRECT: filename block with patch ops treated as patch.", <<fileKey>>),
                      fileKey, cleanBlockContent, TRUE)
             ELSE IF b.hasFence THEN setFileIfChanged(P, fileKey, cleanBlockContent)
             ELSE IF ~looksLikeFullFile(cleanBlockContent, fileKey)
               THEN IF P.isFinal
                      THEN fail(P, "PROTOCOL_VIOLATION: Filename blocks must use fenced code.", <<fileKey>>)
                      ELSE P
             ELSE setFileIfChanged(
                    warn(P, "WARN: filename block missing fence; accepted raw content.", <<fileKey>>),
                    fileKey, cleanBlockContent)
      ELSE IF b.hasPatchTags
        THEN IF patchSignature \in P.seenPatchBlocks
               THEN warn(P, "AUTO_CORRECT: Skipped duplicate patch block.", <<fileKey>>)
               ELSE patchUnderMarker([P EXCEPT !.seenPatchBlocks = @ \cup {patchSignature}],
                                     fileKey, cleanBlockContent, FALSE)
      ELSE setFileIfChanged(
             warn(P, "WARN: patch block missing ops; treated as full file.", <<fileKey>>),
             fileKey, cleanBlockContent)))))

\* The secondary rescue after the marker loop
secondaryRescue(P) ==
  Bind(P.textClean, LAMBDA text :
  Bind(extractInlineReplaceOps(text), LAMBDA inlineOpsRaw :
  Bind(dedupeInlineOps(inlineOpsRaw), LAMBDA inlineOps :
  Bind(dedupeWarning([P EXCEPT !.inlinePatchAttempted = TRUE], inlineOpsRaw, inlineOps),
       LAMBDA P1 :
  Bind(inlineCandidates(P1.newFiles, buildPatchBodyFromInlineOps(inlineOps), TRUE),
       LAMBDA candidates :
    IF ~(Len(P.markers) > 0 /\ P.isFinal /\ P.applyToFiles /\ P.appliedOpsTotal = 0
          /\ hasAnyPatchTags(text)) THEN P
    ELSE IF Len(inlineOps) > 0 /\ candidates # {}
      THEN applyTopCandidate(P1, candidates,
                             "AUTO_RECOVER: Applied inline rescue patch after marker parse miss.",
                             "NO_OP: Inline rescue patch produced no content changes.")
    ELSE P1)))))

CoreScaffold == {"index.html", "index.tsx", "App.tsx"}

MandatoryFiles == {"index.html", "index.tsx", "App.tsx", "input.css", "tailwind.config.js"}

\* validateProject(files).valid: a missing mandatory file makes the project
\* invalid whatever the later checks find, and no file set of the model
\* holds all five
validProject(files) == \A f \in MandatoryFiles : FilesGet(files, f) # <<>>

Min(a, b) == IF a < b THEN a ELSE b

clamp(n, lo, hi) == IF n < lo THEN lo ELSE IF n > hi THEN hi ELSE n

AutoInferTags ==
  {"AUTO_INFER: Applied fenced filename block(s) without markers.",
   "AUTO_INFER: Applied markerless <with> fallback to App.tsx.",
   "AUTO_INFER: Applied markerless raw App.tsx content.",
   "AUTO_INFER: Applied largest fenced block."}

\* computeParserConfidence, in hundredths
computeParserConfidence(P) ==
  LET some(tags) == \E i \in 1..Len(P.warnings) : P.warnings[i].tag \in tags
  IN  clamp(20 + Min(Len(P.markers), 3) * 15
               + (IF P.appliedOpsTotal > 0 THEN 20 ELSE 0)
               + (IF P.touchedFiles # {} THEN 10 ELSE 0)
               + (IF validProject(P.newFiles) THEN 20 ELSE 0)
               - (IF P.parserStage = "fallback" THEN 15 ELSE 0)
               - (IF Len(P.failedPatches) > 0 THEN 35 ELSE 0)
               - (IF some(AutoInferTags) THEN 8 ELSE 0)
               - (IF some({"AUTO_INFER: Applied markerless raw App.tsx content."}) THEN 10 ELSE 0),
            0, 100)

LOW_CONFIDENCE_THRESHOLD == 35

MarkerNoOp == "NO_OP: marker patch detected but produced no file diff"

\* The detectThreeMisuse block of parseResponse
threeMisuse(P) ==
  LET t == detectThreeMisuse(P.textClean)
      w1 == IF t.hasScriptTag
              THEN warn(hint(P, "use_local_three_dependency"),
                        "RUNTIME_RISK: Found <script src=...three...>.", <<>>)
              ELSE hint(P, "use_local_three_dependency")
      w2 == IF t.hasCdnReference
              THEN warn(w1, "RUNTIME_RISK: Found CDN reference for three.js.", <<>>) ELSE w1
      w3 == IF t.hasExamplesImport
              THEN hint(warn(w2, "RUNTIME_RISK: three/examples/jsm/* is not supported in this environment.", <<>>),
                        "three_examples_not_supported")
              ELSE w2
      f1 == IF P.isFinal /\ (t.hasScriptTag \/ t.hasCdnReference)
              THEN fail(w3, "RUNTIME_RISK: Remove CDN/script usage for three.js.", <<>>) ELSE w3
      f2 == IF P.isFinal /\ t.hasExamplesImport
              THEN fail(f1, "RUNTIME_RISK: Import path three/examples/jsm/* is unsupported.", <<>>)
              ELSE f1
  IN  IF t.hasScriptTag \/ t.hasCdnReference \/ t.hasExamplesImport THEN f2 ELSE P

\* Array.from(new Set(repairHints)): the first of equal hints stays
RECURSIVE unique(_, _)
unique(hints, seen) ==
  IF hints = <<>> THEN <<>>
  ELSE IF Head(hints) \in seen THEN unique(Tail(hints), seen)
  ELSE <<Head(hints)>> \o unique(Tail(hints), seen \cup {Head(hints)})

\* parseResponse from the parserStage fix-up after the marker work to the return
finish(P) ==
  LET staged == IF P.usedFallback /\ P.parserStage # "markers"
                  THEN [P EXCEPT !.parserStage = "fallback"] ELSE P
      inlineNoOp == IF P.isFinal /\ P.inlinePatchAttempted /\ ~P.inlinePatchApplied
                       /\ ~P.inlinePatchAmbiguous
                      THEN hint(fail(staged, "NO_OP: inline patch detected but no anchor matched",
                                     IF P.inlinePatchCandidateFile # ""
                                       THEN <<P.inlinePatchCandidateFile>> ELSE <<>>),
                                "inline_anchor_miss")
                      ELSE staged
      markerNoOp == IF P.isFinal /\ P.applyToFiles /\ Len(P.markers) > 0
                       /\ hasAnyPatchTags(P.textClean) /\ P.appliedOpsTotal = 0
                      THEN hint(IF \E i \in 1..Len(inlineNoOp.failedPatches) :
                                     inlineNoOp.failedPatches[i] = Note(MarkerNoOp, <<>>)
                                  THEN inlineNoOp
                                  ELSE fail(inlineNoOp, MarkerNoOp, <<>>),
                                "inline_anchor_miss")
                      ELSE inlineNoOp
      restored == IF P.isFinal /\ P.applyToFiles
                    THEN {k \in CoreScaffold \cap DOMAIN P.baseFiles : k \notin DOMAIN P.newFiles}
                    ELSE {}
      guarded == IF restored # {}
                   THEN hint(warn([markerNoOp EXCEPT
                                     !.newFiles = [k \in restored |-> P.baseFiles[k]] @@ @,
                                     !.touchedFiles = @ \cup restored],
                                  "AUTO_GUARD: Restored core scaffold file(s).",
                                  SortedFiles(restored)),
                             "scaffold_guard_restore")
                   ELSE markerNoOp
      parserConfidence == computeParserConfidence(guarded)
      hinted == IF parserConfidence < LOW_CONFIDENCE_THRESHOLD
                  THEN hint(guarded, "low_parser_confidence") ELSE guarded
  IN  [hinted EXCEPT !.parserConfidence = parserConfidence,
                     !.repairHints = unique(@, {})]

(***************************************************************************)
(* Inputs of the patch engine                                              *)
(***************************************************************************)
MaxLines == 2

\* Source lines: plain, indented, with a trailing comment, another word,
\* the word in mid-line, and a line that ends in a carriage return
SrcLinePool ==
  { <<"x">>, <<SP, "x">>, <<"x", SP, CommentOpen, "c">>, <<"y">>,
    <<"y", SP, "x">>, <<"x", CR>> }

RECURSIVE LineSeqs(_)
LineSeqs(n) ==
  IF n = 0 THEN {<<>>}
  ELSE LET shorter == LineSeqs(n - 1)
       IN  shorter \cup {Append(ls, l) : ls \in {q \in shorter : Len(q) = n - 1},
                                          l \in SrcLinePool}

SourcePool == {Join(ls, <<NL>>) : ls \in LineSeqs(MaxLines) \ {<<>>}}

\* An operation as the model writes it
Ser(type, find, with) ==
  <<OpenTagOf[type], "<find>">> \o find \o <<"</find>", "<with>">> \o with
    \o <<"</with>", CloseTagOf[type]>>

\* The find text and the with text of a serialised operation
Ser2Find(opText) == FirstTagged(opText, "<find>", "</find>")

Ser2With(opText) == FirstTagged(opText, "<with>", "</with>")

SerDelete(find) == <<"<delete>", "<find>">> \o find \o <<"</find>", "</delete>">>

SerCreate(with) == <<"<create>", "<with>">> \o with \o <<"</with>", "</create>">>

OpTextPool ==
  { Ser("replace", <<"x">>, <<"z">>),
    Ser("replace", <<NL, "x", NL>>, <<NL, "z", NL>>),
    Ser("replace", <<"x">>, <<"x">>),
    Ser("replace", <<"q">>, <<"z">>),
    Ser("replace", <<"z">>, <<"y">>),
    Ser("replace", <<"x", NL, "y">>, <<"z">>),
    Ser("insert_before", <<"x">>, <<"z", NL>>),
    Ser("insert_after", <<"y">>, <<NL, "z">>),
    SerDelete(<<"y">>),
    SerCreate(<<"z">>) }

\* The operations a second operation of a body is drawn from: a repetition,
\* an operation on the text the first one wrote, and an anchor miss
FollowUpPool ==
  { Ser("replace", <<"x">>, <<"z">>),
    Ser("replace", <<"z">>, <<"y">>),
    Ser("replace", <<"q">>, <<"z">>),
    Ser("insert_after", <<"y">>, <<NL, "z">>) }

PatchBodyPool ==
  OpTextPool \cup {a \o <<NL>> \o b : a \in OpTextPool, b \in FollowUpPool}

(***************************************************************************)
(* Inputs of parseResponse                                                 *)
(***************************************************************************)
MaxReps == 2

FindPool == {<<"x">>, <<NL, "x", NL>>, <<"q">>}

WithPool == {<<"z">>, <<Decl>>}

InlineOpPool == {Ser("replace", f, w) : f \in FindPool, w \in WithPool}

\* n copies of an operation, one to a line
RECURSIVE Reps(_, _)
Reps(op, n) == IF n = 1 THEN op ELSE op \o <<NL>> \o Reps(op, n - 1)

\* The unmarked head of a response: nothing, or the operation n times
\* behind a stray tool tag
Stray(op, n) == IF n = 0 THEN <<>> ELSE <<"<tool_call>", NL>> \o Reps(op, n) \o <<NL>>

Endings == {"complete", "</replace", Dangling}

\* The text with its last closing tag as the ending has it
Truncated(t, ending) ==
  IF ending = "complete" THEN t ELSE SubSeq(t, 1, Len(t) - 1) \o <<ending>>

MarkedPool(op) ==
  {<<m.lex, NL>> \o Truncated(Reps(op, n), e) : m \in Markers, n \in 1..MaxReps, e \in Endings}

\* A stray head, a marked block, or the one before the other
PatchResponsePool ==
  UNION {{Stray(op, n) \o b : n \in 0..MaxReps, b \in MarkedPool(op)}
           \cup {Stray(op, n) : n \in 1..MaxReps} : op \in InlineOpPool}

Fenced(label, body) == <<Fence>> \o label \o <<NL>> \o body \o <<NL, Fence>>

\* Responses of other shapes: fenced and raw files, blocks without
\* operations, a <create>, two marked blocks, wrappers and reasoning
OtherResponsePool ==
  LET opX == Ser("replace", <<"x">>, <<"z">>)
      opY == Ser("replace", <<"y">>, <<"z">>)
  IN  { <<"y">>,
        <<"App.tsx", NL>> \o Fenced(<<"tsx">>, <<Decl>>),
        <<"y", NL, FileLabel, SP, "index.tsx", NL>> \o Fenced(<<>>, <<"x", NL, "y">>),
        Fenced(<<"tsx">>, <<ExportDefault>>),
        Fenced(<<>>, <<"z">>),
        <<"y", NL, RawApp>>,
        SerCreate(<<Decl>>),
        <<"<!-- filename: App.tsx -->", NL>> \o Fenced(<<"tsx">>, <<"z", NL, "y">>),
        <<"<!-- filename: index.tsx -->", NL, Decl>>,
        <<"<!-- filename: index.tsx -->", NL, "z">>,
        <<"<!-- filename: src/App.tsx -->", NL>> \o SerCreate(<<"z">>),
        <<"<!-- patch: App.tsx -->", NL, "tsx", NL, "z">>,
        <<"<!-- patch: App.tsx -->", NL>> \o opX \o <<NL, "<!-- patch: App.tsx -->", NL>> \o opX,
        <<"<!-- patch: App.tsx -->", NL>> \o opX \o <<NL, "<!-- patch: index.tsx -->", NL>> \o opY,
        <<"<!-- patch: App.tsx -->", NL>> \o opX \o <<NL, "<!-- patch: App.tsx -->", NL>> \o opY,
        <<"<function=patch:App.tsx>", NL>> \o opX \o <<NL, "</function>">>,
        <<"<patch: App.tsx>", NL>> \o opY \o <<NL, "</patch>">>,
        <<"<filename: App.tsx>", NL>> \o Fenced(<<>>, <<Decl>>),
        <<"<think>", "q", "</think>", NL, "<details>">> \o opX \o <<"</details>">>,
        <<"<find>", "x", "</find>", NL, "<with>", "z", "</with>">>,
        <<"<replace>", "<find>", "q", "</find>", "<with>", Decl, NL, "</with">>,
        opX \o <<NL>> \o opY,
        Stray(opX, 1) \o <<"<!-- filename: App.tsx -->", NL>>
          \o Fenced(<<"tsx">>, <<"x", NL, "y", NL, "y">>),
        <<ThreeScriptTag, NL, ThreeExamples>>,
        <<"<!-- patch: App.tsx -->", NL>> \o opX \o <<NL, ThreeCdn>> }

ResponsePool == PatchResponsePool \cup OtherResponsePool

AppContentPool ==
  { <<"x", NL, "y">>, <<"y", SP, "x">>, <<"x", SP, CommentOpen, "c", NL, "y">>,
    <<"y">>, <<"x", NL, "x">> }

IndexContentPool == {<<"y">>, <<"x", NL, "y">>}

\* The project: App.tsx and index.tsx, or index.tsx alone
BaseFilesPool ==
  {("App.tsx" :> a) @@ ("index.tsx" :> i) : a \in AppContentPool, i \in IndexContentPool}
    \cup {("index.tsx" :> <<"x", NL, "y">>)}

\* isFinal, applyToFiles and parseMode as generateAppCode passes them
ParseModes ==
  { [isFinal |-> TRUE, applyToFiles |-> TRUE, parseMode |-> "final-full"],
    [isFinal |-> FALSE, applyToFiles |-> TRUE, parseMode |-> "final-full"],
    [isFinal |-> FALSE, applyToFiles |-> FALSE, parseMode |-> "final-full"],
    [isFinal |-> FALSE, applyToFiles |-> FALSE, parseMode |-> "stream-lite"] }

(***************************************************************************)
(* The state machines                                                      *)
(***************************************************************************)
NoResult == PatchResult(<<>>, FALSE, "", 0, 0)

PatchCall(content, patchBody, isFinal, bestEffort) ==
  [pc |-> "call", content |-> content, patchBody |-> patchBody,
   isFinal |-> isFinal, bestEffort |-> bestEffort,
   originalContent |-> <<>>, dedupedOps |-> <<>>, idx |-> 0,
   st |-> LoopStart(<<>>), result |-> NoResult]

PatchIdle == [PatchCall(<<>>, <<>>, FALSE, FALSE) EXCEPT !.pc = "idle"]

\* parseResponse on entry: newFiles = { ...baseFiles } and empty lists
ParseCall(contentStream, baseFiles, isFinal, applyToFiles, parseMode) ==
  [pc |-> "call", contentStream |-> contentStream, baseFiles |-> baseFiles,
   isFinal |-> isFinal, applyToFiles |-> applyToFiles, parseMode |-> parseMode,
   textClean |-> <<>>, markers |-> <<>>, idx |-> 0,
   newFiles |-> baseFiles, failedPatches |-> <<>>, warnings |-> <<>>,
   repairHints |-> <<>>, touchedFiles |-> {}, appliedOpsTotal |-> 0,
   parserStage |-> "raw", usedFallback |-> FALSE,
   inlinePatchAttempted |-> FALSE, inlinePatchApplied |-> FALSE,
   inlinePatchCandidateFile |-> "", inlinePatchAmbiguous |-> FALSE,
   seenPatchBlocks |-> {}, parserConfidence |-> 0]

ParseIdle == [ParseCall(<<>>, <<>>, FALSE, FALSE, "final-full") EXCEPT !.pc = "idle"]

RetryIdle == [pc |-> "idle"]

ScoreIdle == [pc |-> "idle"]

SendIdle == [pc |-> "idle"]

NormIdle == [pc |-> "idle"]

PreflightIdle == [pc |-> "idle"]

StreamIdle == [pc |-> "idle"]

RepairIdle == [pc |-> "idle"]

ReaderIdle == [pc |-> "idle"]

SessionIdle == [pc |-> "idle"]

RequestsIdle == [pc |-> "idle"]

PreviewIdle == [pc |-> "idle"]

InitPatch ==
  /\ preview = PreviewIdle
  /\ requests = RequestsIdle
  /\ session = SessionIdle
  /\ reader = ReaderIdle
  /\ patch \in {PatchCall(c, b, f, e) :
                  c \in SourcePool, b \in PatchBodyPool, f \in BOOLEAN, e \in BOOLEAN}
  /\ parse = ParseIdle
  /\ retry = RetryIdle
  /\ scoring = ScoreIdle
  /\ send = SendIdle
  /\ normalizer = NormIdle
  /\ preflight = PreflightIdle
  /\ stream = StreamIdle
  /\ repairLoop = RepairIdle

\* applyPatches up to the loop: normalisation, extraction, de-duplication
\* and the returns taken before the loop
PatchBegin ==
  /\ patch.pc = "call"
  /\ LET originalContent == normalizeText(patch.content)
         dedupedOps == dedupedOpsOf(parseOps(bodyNormOf(patch.patchBody)))
     IN  patch' =
           IF HasEarlyReturn(dedupedOps)
             THEN [patch EXCEPT !.pc = "done",
                                !.originalContent = originalContent,
                                !.dedupedOps = dedupedOps,
                                !.st = LoopStart(originalContent),
                                !.result = earlyReturn(originalContent, dedupedOps,
                                                       patch.isFinal)]
             ELSE [patch EXCEPT !.pc = "loop",
                                !.originalContent = originalContent,
                                !.dedupedOps = dedupedOps,
                                !.st = LoopStart(originalContent)]
  /\ UNCHANGED <<parse, retry, scoring, send, normalizer, preflight, stream, repairLoop, reader, session, requests, preview>>

\* One iteration of the loop over dedupedOps
PatchExecOp ==
  /\ patch.pc = "loop"
  /\ patch.idx < Len(patch.dedupedOps)
  /\ ~patch.st.broke
  /\ patch' = [patch EXCEPT
                 !.st = execOp(patch.st, patch.dedupedOps[patch.idx + 1], patch.bestEffort),
                 !.idx = @ + 1]
  /\ UNCHANGED <<parse, retry, scoring, send, normalizer, preflight, stream, repairLoop, reader, session, requests, preview>>

\* The return behind the loop
PatchReturn ==
  /\ patch.pc = "loop"
  /\ patch.idx = Len(patch.dedupedOps) \/ patch.st.broke
  /\ patch' = [patch EXCEPT
                 !.pc = "done",
                 !.result = loopReturn(patch.originalContent, patch.st,
                                       Len(patch.dedupedOps), patch.bestEffort)]
  /\ UNCHANGED <<parse, retry, scoring, send, normalizer, preflight, stream, repairLoop, reader, session, requests, preview>>

NextPatch == PatchBegin \/ PatchExecOp \/ PatchReturn

SpecPatch == InitPatch /\ [][NextPatch]_vars

InitParse ==
  /\ preview = PreviewIdle
  /\ requests = RequestsIdle
  /\ session = SessionIdle
  /\ reader = ReaderIdle
  /\ parse \in {ParseCall(r, b, m.isFinal, m.applyToFiles, m.parseMode) :
                  r \in ResponsePool, b \in BaseFilesPool, m \in ParseModes}
  /\ patch = PatchIdle
  /\ retry = RetryIdle
  /\ scoring = ScoreIdle
  /\ send = SendIdle
  /\ normalizer = NormIdle
  /\ preflight = PreflightIdle
  /\ stream = StreamIdle
  /\ repairLoop = RepairIdle

\* parseResponse up to the work on the files: the text is cleaned and the
\* markers are collected; stream-lite returns here with the base files
normalized(P) ==
  Bind(textCleanOf(P.contentStream), LAMBDA clean :
  Bind([P EXCEPT !.textClean = clean.text, !.warnings = clean.warnings,
                 !.parserStage = "normalized"], LAMBDA P1 :
  Bind([threeMisuse(P1) EXCEPT !.markers = markersOf(clean.text)], LAMBDA P2 :
    IF P.parseMode = "stream-lite"
      THEN [P1 EXCEPT !.pc = "done", !.markers = markersOf(clean.text),
                      !.parserConfidence = 50]
    ELSE IF ~P.applyToFiles THEN [P2 EXCEPT !.pc = "finish"]
    ELSE IF Len(P2.markers) = 0 THEN [P2 EXCEPT !.pc = "markerless"]
    ELSE [P2 EXCEPT !.pc = "blocks", !.parserStage = "markers"])))

ParseNormalize ==
  /\ parse.pc = "call"
  /\ parse' = normalized(parse)
  /\ UNCHANGED <<patch, retry, scoring, send, normalizer, preflight, stream, repairLoop, reader, session, requests, preview>>

\* The branch for a text without markers
ParseMarkerless ==
  /\ parse.pc = "markerless"
  /\ parse' = [markerless(parse) EXCEPT !.pc = "finish"]
  /\ UNCHANGED <<patch, retry, scoring, send, normalizer, preflight, stream, repairLoop, reader, session, requests, preview>>

\* One turn of the marker loop
ParseBlock ==
  /\ parse.pc = "blocks"
  /\ parse.idx < Len(parse.markers)
  /\ parse' = [markerBlock(parse, parse.idx + 1) EXCEPT !.idx = @ + 1]
  /\ UNCHANGED <<patch, retry, scoring, send, normalizer, preflight, stream, repairLoop, reader, session, requests, preview>>

\* Behind the marker loop: the secondary rescue, where its condition holds
ParseRescue ==
  /\ parse.pc = "blocks"
  /\ parse.idx = Len(parse.markers)
  /\ parse' = [secondaryRescue(parse) EXCEPT !.pc = "finish"]
  /\ UNCHANGED <<patch, retry, scoring, send, normalizer, preflight, stream, repairLoop, reader, session, requests, preview>>

\* The bookkeeping behind the work on the files, and the return
ParseFinish ==
  /\ parse.pc = "finish"
  /\ parse' = [finish(parse) EXCEPT !.pc = "done"]
  /\ UNCHANGED <<patch, retry, scoring, send, normalizer, preflight, stream, repairLoop, reader, session, requests, preview>>

NextParse == ParseNormalize \/ ParseMarkerless \/ ParseBlock \/ ParseRescue \/ ParseFinish

SpecParse == InitParse /\ [][NextParse]_vars

RECURSIVE markerLoop(_, _)
markerLoop(P, i) ==
  IF i > Len(P.markers) THEN P
  ELSE Bind(markerBlock(P, i), LAMBDA Q : markerLoop(Q, i + 1))

\* parseResponse as a function of its arguments
parseResponse(contentStream, baseFiles, isFinal, applyToFiles, parseMode) ==
  Bind(normalized(ParseCall(contentStream, baseFiles, isFinal, applyToFiles, parseMode)),
       LAMBDA P :
    IF P.pc = "done" THEN P
    ELSE IF P.pc = "finish" THEN finish(P)
    ELSE IF P.pc = "markerless" THEN Bind(markerless(P), LAMBDA Q : finish(Q))
    ELSE Bind(markerLoop(P, 1), LAMBDA Q :
         Bind(secondaryRescue(Q), LAMBDA R : finish(R))))

\* The fields of a StreamUpdate the parser state holds
StreamUpdate(P) ==
  [files |-> P.newFiles, failedPatches |-> P.failedPatches, warnings |-> P.warnings,
   repairHints |-> P.repairHints, parserStage |-> P.parserStage,
   parserConfidence |-> P.parserConfidence, cleanModelText |-> P.textClean,
   parserStats |-> [markerCount |-> Len(P.markers), appliedOps |-> P.appliedOpsTotal,
                    touchedFiles |-> P.touchedFiles]]

\* The stepwise parse returns what the function returns
ParseStepsAgree ==
  parse.pc = "done" =>
    StreamUpdate(parse) =
      StreamUpdate(parseResponse(parse.contentStream, parse.baseFiles, parse.isFinal,
                                 parse.applyToFiles, parse.parseMode))

\* The stepwise run returns what the function returns
PatchStepsAgree ==
  patch.pc = "done" =>
    patch.result = applyPatches(patch.content, patch.patchBody, patch.isFinal,
                                patch.bestEffort)

(***************************************************************************)
(* The run orchestrator: the decision about a second attempt               *)
(***************************************************************************)
QualityModes == {"single-pass", "adaptive-best-of-2", "always-best-of-2"}

MaxAttemptIndex == 3

RetryDecision(shouldRetry, reason) == [shouldRetry |-> shouldRetry, reason |-> reason]

\* A decision that does not look at the attempt index
shouldTriggerSecondAttemptAnyIndex(input) ==
  IF input.isRepairCall THEN RetryDecision(FALSE, "retry_disabled_for_repair_calls")
  ELSE IF input.qualityMode = "single-pass"
    THEN RetryDecision(FALSE, "quality_mode_single_pass")
  ELSE IF input.qualityMode = "always-best-of-2"
    THEN RetryDecision(TRUE, "quality_mode_always_best_of_2")
  ELSE IF ~(input.hasHardIssues \/ input.hasRuntimeIssues
            \/ input.noEffectiveChanges \/ input.inlineNoOp)
    THEN RetryDecision(FALSE, "primary_attempt_healthy")
  ELSE RetryDecision(TRUE, "adaptive_retry_on_failure_signals")

\* A decision that lets single-pass fall through to the signals
shouldTriggerSecondAttemptNoSinglePass(input) ==
  IF input.isRepairCall THEN RetryDecision(FALSE, "retry_disabled_for_repair_calls")
  ELSE IF input.attemptIndex >= 2 THEN RetryDecision(FALSE, "retry_already_performed")
  ELSE IF input.qualityMode = "always-best-of-2"
    THEN RetryDecision(TRUE, "quality_mode_always_best_of_2")
  ELSE IF ~(input.hasHardIssues \/ input.hasRuntimeIssues
            \/ input.noEffectiveChanges \/ input.inlineNoOp)
    THEN RetryDecision(FALSE, "primary_attempt_healthy")
  ELSE RetryDecision(TRUE, "adaptive_retry_on_failure_signals")

shouldTriggerSecondAttempt(input) ==
  IF input.isRepairCall THEN RetryDecision(FALSE, "retry_disabled_for_repair_calls")
  ELSE IF input.attemptIndex >= 2 THEN RetryDecision(FALSE, "retry_already_performed")
  ELSE IF input.qualityMode = "single-pass"
    THEN RetryDecision(FALSE, "quality_mode_single_pass")
  ELSE IF input.qualityMode = "always-best-of-2"
    THEN RetryDecision(TRUE, "quality_mode_always_best_of_2")
  ELSE LET hasRetrySignals == \/ input.hasHardIssues \/ input.hasRuntimeIssues
                              \/ input.noEffectiveChanges \/ input.inlineNoOp
       IN  IF ~hasRetrySignals THEN RetryDecision(FALSE, "primary_attempt_healthy")
           ELSE RetryDecision(TRUE, "adaptive_retry_on_failure_signals")

RetryDecisionInput(q, r, a, h, t, n, i) ==
  [qualityMode |-> q, isRepairCall |-> r, attemptIndex |-> a, hasHardIssues |-> h,
   hasRuntimeIssues |-> t, noEffectiveChanges |-> n, inlineNoOp |-> i]

RetryInputs(attempts) ==
  {RetryDecisionInput(q, r, a, h, t, n, i) :
     q \in QualityModes, r \in BOOLEAN, a \in attempts,
     h \in BOOLEAN, t \in BOOLEAN, n \in BOOLEAN, i \in BOOLEAN}

NoDecision == RetryDecision(FALSE, "")

RetryCall(input) == [pc |-> "call", input |-> input, decision |-> NoDecision]

InitRetry ==
  /\ preview = PreviewIdle
  /\ requests = RequestsIdle
  /\ session = SessionIdle
  /\ reader = ReaderIdle
  /\ retry \in {RetryCall(input) : input \in RetryInputs(0..MaxAttemptIndex)}
  /\ patch = PatchIdle
  /\ parse = ParseIdle
  /\ scoring = ScoreIdle
  /\ send = SendIdle
  /\ normalizer = NormIdle
  /\ preflight = PreflightIdle
  /\ stream = StreamIdle
  /\ repairLoop = RepairIdle

\* handleSend asks for the decision once the attempt has been judged
RetryDecide ==
  /\ retry.pc = "call"
  /\ retry' = [retry EXCEPT !.pc = "decided",
                            !.decision = shouldTriggerSecondAttempt(retry.input)]
  /\ UNCHANGED <<patch, parse, scoring, send, normalizer, preflight, stream, repairLoop, reader, session, requests, preview>>

\* handleSend runs the second attempt: not a repair call, the next attempt
\* index, the quality mode of the configuration, and whatever that attempt
\* turns out to be
RetrySecondAttempt ==
  /\ retry.pc = "decided"
  /\ retry.decision.shouldRetry
  /\ retry.input.attemptIndex < MaxAttemptIndex
  /\ \E input \in RetryInputs({retry.input.attemptIndex + 1}) :
       /\ input.qualityMode = retry.input.qualityMode
       /\ ~input.isRepairCall
       /\ retry' = RetryCall(input)
  /\ UNCHANGED <<patch, parse, scoring, send, normalizer, preflight, stream, repairLoop, reader, session, requests, preview>>

NextRetry == RetryDecide \/ RetrySecondAttempt

SpecRetry == InitRetry /\ [][NextRetry]_vars

(***************************************************************************)
(* The run orchestrator: the score of a candidate                          *)
(***************************************************************************)
MaxDelta == 1

MaxChanged == 1

MaxOps == 7

MaxHard == 1

Max(a, b) == IF a > b THEN a ELSE b

RunCandidateScore(validationDelta, runtimeOk, changedFiles, appliedOps, hardFailures, total) ==
  [validationDelta |-> validationDelta, runtimeOk |-> runtimeOk,
   changedFiles |-> changedFiles, appliedOps |-> appliedOps,
   hardFailures |-> hardFailures, score |-> total]

\* A score that gives a candidate without changed files what it gives one
\* with changed files
scoreRunCandidateNoChangeTerm(validationDelta, runtimeOk, changedFiles, appliedOps, hardFailures) ==
  RunCandidateScore(validationDelta, runtimeOk, changedFiles, appliedOps, hardFailures,
    240 + Min(appliedOps, 6) * 16 - Max(0, validationDelta) * 140
      + (IF runtimeOk THEN 60 ELSE -80) - hardFailures * 110)

scoreRunCandidate(validationDelta, runtimeOk, changedFiles, appliedOps, hardFailures) ==
  RunCandidateScore(validationDelta, runtimeOk, changedFiles, appliedOps, hardFailures,
    (IF changedFiles > 0 THEN 240 ELSE -120)
      + Min(appliedOps, 6) * 16
      - Max(0, validationDelta) * 140
      + (IF runtimeOk THEN 60 ELSE -80)
      - hardFailures * 110)

\* The measurements of a candidate before they are scored
CandidateMetrics ==
  [validationDelta : -1..MaxDelta, runtimeOk : BOOLEAN, changedFiles : 0..MaxChanged,
   appliedOps : 0..MaxOps, hardFailures : 0..MaxHard]

scoreOf(m) ==
  scoreRunCandidate(m.validationDelta, m.runtimeOk, m.changedFiles, m.appliedOps,
                    m.hardFailures)

InitScore ==
  /\ preview = PreviewIdle
  /\ requests = RequestsIdle
  /\ session = SessionIdle
  /\ reader = ReaderIdle
  /\ scoring \in [pc : {"call"}, first : CandidateMetrics, second : CandidateMetrics]
  /\ patch = PatchIdle
  /\ parse = ParseIdle
  /\ retry = RetryIdle
  /\ send = SendIdle
  /\ normalizer = NormIdle
  /\ preflight = PreflightIdle
  /\ stream = StreamIdle
  /\ repairLoop = RepairIdle

\* evaluateCandidate scores the two candidates
ScoreCandidates ==
  /\ scoring.pc = "call"
  /\ scoring' = [pc |-> "scored", first |-> scoreOf(scoring.first),
                 second |-> scoreOf(scoring.second)]
  /\ UNCHANGED <<patch, parse, retry, send, normalizer, preflight, stream, repairLoop, reader, session, requests, preview>>

NextScore == ScoreCandidates

SpecScore == InitScore /\ [][NextScore]_vars

(***************************************************************************)
(* The run orchestrator: project files, validation and preview preflight   *)
(***************************************************************************)
\* String.prototype.includes on the lexemes the checks look for
Has(content, lexeme) == \E i \in 1..Len(content) : content[i] = lexeme

RootMount == "<div id=\"root\"></div>"

CreateRoot == "ReactDOM.createRoot(root).render(<App />);"

CssImport == "import './input.css';"

AppImport == "import App from './App';"

AppComponent == "const App = () =>"

DefaultExport == "export default App;"

TailwindDirectives == <<"@tailwind base;", "@tailwind components;", "@tailwind utilities;">>

ValidationResult(errors) == [valid |-> errors = <<>>, errors |-> errors]

\* validateProject: the mandatory files, the entry chain, the Tailwind
\* wiring, the export of App.tsx and the default import of index.tsx.  The
\* contents of the model hold no grid layout, no JSX tag and no syntax
\* error, so the other checks of section 5 find nothing
validateProject(files) ==
  LET mandatory == <<"index.html", "index.tsx", "App.tsx", "input.css", "tailwind.config.js">>
      missing == SelectSeq(mandatory, LAMBDA f : FilesGet(files, f) = <<>>)
      html == FilesGet(files, "index.html")
      index == FilesGet(files, "index.tsx")
      css == FilesGet(files, "input.css")
      appContent == FilesGet(files, "App.tsx")
      when(cond, tag, fs) == IF cond THEN <<Note(tag, fs)>> ELSE <<>>
  IN  ValidationResult(
        [i \in 1..Len(missing) |-> Note("Missing mandatory file", <<missing[i]>>)]
        \o when(html # <<>> /\ ~Has(html, RootMount),
                "index.html must contain a <div id=\"root\"> element.", <<>>)
        \o when(index # <<>> /\ ~Has(index, CreateRoot),
                "index.tsx must use ReactDOM.createRoot for React 18+ syntax.", <<>>)
        \o when(css # <<>> /\ \E i \in 1..3 : ~Has(css, TailwindDirectives[i]),
                "input.css must contain all three @tailwind directives (base, components, utilities).",
                <<>>)
        \o when(appContent # <<>> /\ ~Has(appContent, DefaultExport),
                "App.tsx must contain a default export (e.g., export default App;).", <<>>)
        \o when(appContent # <<>> /\ Has(appContent, Fence),
                "App.tsx contains markdown code fences. Return plain TSX source only.", <<>>)
        \o when(appContent # <<>> /\ ~Has(appContent, AppComponent),
                "App.tsx should define an App component before exporting it.", <<>>)
        \o when(Has(index, AppImport) /\ appContent = <<>>,
                "Import not found: ./App.", <<"index.tsx">>)
        \o when(Has(index, AppImport) /\ appContent # <<>> /\ ~Has(appContent, DefaultExport),
                "Default import \"./App\" (App) requires a default export in App.tsx.",
                <<"index.tsx">>))

PreviewPreflightResult(fatalErrors, warnings, entryFile, syntheticIndexHtml, autoHealed) ==
  [ok |-> fatalErrors = <<>>, fatalErrors |-> fatalErrors, warnings |-> warnings,
   entryFile |-> entryFile, syntheticIndexHtml |-> syntheticIndexHtml,
   autoHealed |-> autoHealed]

\* entryCandidates of runPreviewPreflight, in the order they are tried
entryCandidates ==
  <<"index.tsx", "index.jsx", "main.tsx", "main.jsx",
    "src/index.tsx", "src/index.jsx", "src/main.tsx", "src/main.jsx">>

\* null, for the entry file and for a path that does not resolve
NoFile == ""

\* A search that takes the first candidate the project holds, blank or not
findEntryFileAnyContent(files) ==
  IF \E i \in 1..Len(entryCandidates) : entryCandidates[i] \in DOMAIN files
    THEN entryCandidates[MinOf({i \in 1..Len(entryCandidates) :
                                  entryCandidates[i] \in DOMAIN files})]
    ELSE NoFile

\* entryCandidates.find(...) || null: the first candidate whose content is
\* a string with something in it other than white space
findEntryFile(files) ==
  IF \E i \in 1..Len(entryCandidates) : Trim(FilesGet(files, entryCandidates[i])) # <<>>
    THEN entryCandidates[MinOf({i \in 1..Len(entryCandidates) :
                                  Trim(FilesGet(files, entryCandidates[i])) # <<>>})]
    ELSE NoFile

\* The body of the synthetic index.html written for a project without one
SyntheticShell == <<"<!DOCTYPE html>", "<body>", NL, RootMount, NL, "</body>">>

\* The index.html of the preview when the one of the project has no root
\* mount: the mount is put behind the first <body> tag, or the whole
\* content is wrapped into a body that begins with the mount
healRootMount(existingHtml) ==
  IF Has(existingHtml, "<body>")
    THEN Bind(MinOf({i \in 1..Len(existingHtml) : existingHtml[i] = "<body>"}), LAMBDA at :
           SubSeq(existingHtml, 1, at) \o <<NL, RootMount>>
             \o SubSeq(existingHtml, at + 1, Len(existingHtml)))
    ELSE <<"<!DOCTYPE html>", "<body>", RootMount>> \o existingHtml \o <<"</body>">>

\* resolvePath(baseFile, "./App"): App beside the entry file
AppBeside(entryFile) ==
  IF entryFile \in {"src/index.tsx", "src/index.jsx", "src/main.tsx", "src/main.jsx"}
    THEN "src/App" ELSE "App"

\* resolveImportToExistingFile for the import of ./App, over the
\* extensions that make a path of the model
resolveAppImport(files, entryFile) ==
  IF FilesGet(files, AppBeside(entryFile)) # <<>> THEN AppBeside(entryFile)
  ELSE IF FilesGet(files, AppBeside(entryFile) \o ".tsx") # <<>>
    THEN AppBeside(entryFile) \o ".tsx"
  ELSE NoFile

\* The warnings of runPreviewPreflight about the default import of the
\* entry file
entryImportWarnings(files, entryFile) ==
  IF entryFile = NoFile THEN <<>>
  ELSE IF ~Has(FilesGet(files, entryFile), AppImport)
    THEN <<Note("no default app import detected; preview may still mount.", <<entryFile>>)>>
  ELSE IF resolveAppImport(files, entryFile) = NoFile
    THEN <<Note("import target not found: ./App", <<entryFile>>)>>
  ELSE IF ~Has(FilesGet(files, resolveAppImport(files, entryFile)), DefaultExport)
    THEN <<Note("imported as default but no default export detected.",
                <<resolveAppImport(files, entryFile)>>)>>
  ELSE <<>>

\* runPreviewPreflight
runPreviewPreflight(files) ==
  Bind(findEntryFile(files), LAMBDA entryFile :
  Bind(FilesGet(files, "index.html"), LAMBDA existingHtml :
    PreviewPreflightResult(
      IF entryFile = NoFile
        THEN <<"No JS/TS entry file found (expected index/main in root or src).">>
        ELSE <<>>,
      (IF existingHtml = <<>> THEN <<Note("missing_index_html_auto_healed", <<>>)>>
       ELSE IF ~Has(existingHtml, RootMount)
         THEN <<Note("missing_root_mount_auto_healed", <<>>)>>
       ELSE <<>>)
        \o entryImportWarnings(files, entryFile),
      entryFile,
      IF existingHtml = <<>> THEN SyntheticShell
      ELSE IF ~Has(existingHtml, RootMount) THEN healRootMount(existingHtml)
      ELSE <<>>,
      IF existingHtml = <<>> THEN <<"index.html">>
      ELSE IF ~Has(existingHtml, RootMount) THEN <<"index.html#root">>
      ELSE <<>>)))

\* sanitizeGeneratedFiles: index.tsx gets the import of input.css when it
\* has none; no content of the model imports from local-project/
sanitizeGeneratedFiles(files) ==
  IF /\ "index.tsx" \in DOMAIN files
     /\ ~Has(files["index.tsx"], CssImport)
     /\ FilesGet(files, "input.css") # <<>>
    THEN [files |-> [files EXCEPT !["index.tsx"] = <<CssImport, NL>> \o @],
          warnings |-> <<"AUTO_FIX: Added missing input.css import to index.tsx.">>,
          changed |-> TRUE]
    ELSE [files |-> files, warnings |-> <<>>, changed |-> FALSE]

\* getChangedFilesBetween, as the set of the changed paths
getChangedFiles(before, after) ==
  {key \in DOMAIN before \cup DOMAIN after : FilesGet(before, key) # FilesGet(after, key)}

(***************************************************************************)
(* The run orchestrator: the candidates of an attempt                      *)
(***************************************************************************)
\* Array.prototype.filter
Filter(seq, Keep(_)) == SelectSeq(seq, Keep)

\* evaluateCandidate of handleSend
evaluateCandidate(sourceFiles, baselineErrorSet, runtimeOk, label, files, appliedOps, hardFailureCount) ==
  Bind(sanitizeGeneratedFiles(files), LAMBDA sanitized :
  Bind(validateProject(sanitized.files), LAMBDA validation :
  Bind(runPreviewPreflight(sanitized.files), LAMBDA previewPreflight :
  Bind(getChangedFiles(sourceFiles, sanitized.files), LAMBDA changedFiles :
  Bind(Filter(validation.errors, LAMBDA err : err \notin baselineErrorSet),
       LAMBDA newValidationErrors :
    [label |-> label,
     files |-> sanitized.files,
     warnings |-> sanitized.warnings,
     changed |-> sanitized.changed,
     changedFiles |-> changedFiles,
     validation |-> validation,
     newValidationErrors |-> newValidationErrors,
     previewPreflight |-> previewPreflight,
     metrics |-> scoreRunCandidate(
                   Len(newValidationErrors), runtimeOk, Cardinality(changedFiles), appliedOps,
                   hardFailureCount
                     + (IF previewPreflight.ok THEN 0
                        ELSE Len(previewPreflight.fatalErrors)))])))))

\* The candidates of an attempt: the final parse, the last actionable
\* stream snapshot if there was one, and the rollback baseline
candidatePool(sourceFiles, rollbackBaseline, outcome) ==
  Bind(validateProject(sourceFiles), LAMBDA baselineValidation :
  Bind({baselineValidation.errors[i] : i \in 1..Len(baselineValidation.errors)},
       LAMBDA baselineErrorSet :
  Bind(outcome.runtimeErrors = <<>>, LAMBDA runtimeOk :
    <<evaluateCandidate(sourceFiles, baselineErrorSet, runtimeOk, "final",
                        outcome.result.files, outcome.result.appliedOps,
                        Len(outcome.result.failedPatches))>>
    \o (IF outcome.hadActionableStreamChange
          THEN <<evaluateCandidate(sourceFiles, baselineErrorSet, runtimeOk, "stream",
                                   outcome.lastActionableFiles, 0, 0)>>
          ELSE <<>>)
    \o <<evaluateCandidate(sourceFiles, baselineErrorSet, runtimeOk, "baseline",
                           rollbackBaseline, 0, 0)>>)))

changedWithoutRegression(pool) ==
  Filter(pool, LAMBDA c : c.changedFiles # {} /\ c.newValidationErrors = <<>>)

preflightSafe(pool) ==
  Filter(IF changedWithoutRegression(pool) # <<>> THEN changedWithoutRegression(pool) ELSE pool,
         LAMBDA c : c.previewPreflight.ok)

scoredPool(pool) ==
  IF preflightSafe(pool) # <<>> THEN preflightSafe(pool)
  ELSE IF changedWithoutRegression(pool) # <<>> THEN changedWithoutRegression(pool)
  ELSE pool

RankedCandidate(id, metrics) == [id |-> id, metrics |-> metrics]

NoCandidate == RankedCandidate("", scoreRunCandidate(0, TRUE, 0, 0, 0))

\* A choice that takes the first candidate whatever its score
pickFirstCandidate(candidates) ==
  IF candidates = <<>> THEN NoCandidate ELSE candidates[1]

\* pickBestCandidate: the head of a stable sort by descending score, so the
\* first of the candidates with the highest score
pickBestCandidate(candidates) ==
  IF candidates = <<>> THEN NoCandidate
  ELSE candidates[MinOf({i \in 1..Len(candidates) :
                           \A k \in 1..Len(candidates) :
                             candidates[i].metrics.score >= candidates[k].metrics.score})]

\* selectedCandidate of handleSend
selectedCandidate(pool) ==
  Bind(scoredPool(pool), LAMBDA scored :
  Bind(pickBestCandidate([i \in 1..Len(scored) |->
                            RankedCandidate(scored[i].label, scored[i].metrics)]),
       LAMBDA picked :
    IF \E i \in 1..Len(scored) : scored[i].label = picked.id
      THEN scored[MinOf({i \in 1..Len(scored) : scored[i].label = picked.id})]
      ELSE scored[1]))

\* [...scoredPool].sort((a, b) => b.metrics.score - a.metrics.score): a
\* stable sort by descending score
RECURSIVE sortedByScore(_)
sortedByScore(scored) ==
  IF scored = <<>> THEN <<>>
  ELSE Bind(MinOf({i \in 1..Len(scored) :
                     \A k \in 1..Len(scored) :
                       scored[i].metrics.score >= scored[k].metrics.score}), LAMBDA i :
         <<scored[i]>>
           \o sortedByScore(SubSeq(scored, 1, i - 1) \o SubSeq(scored, i + 1, Len(scored))))

\* null, for the pending alternative
NoPending == ""

\* A choice of the alternative that does not look at the scores
pendingApplyCandidateAnyMargin(scored, selected) ==
  Bind(sortedByScore(scored), LAMBDA sortedPool :
    IF /\ Len(sortedPool) >= 2
       /\ sortedPool[2].changedFiles # {}
       /\ sortedPool[2].newValidationErrors = <<>>
       /\ sortedPool[2].label # selected.label
      THEN sortedPool[2].label ELSE NoPending)

\* The alternative handleSend keeps for the operator, by its label: the
\* runner-up of the scored pool when it is close to the top score, changed
\* files and has no new validation error
pendingApplyCandidate(scored, selected) ==
  Bind(sortedByScore(scored), LAMBDA sortedPool :
    IF /\ Len(sortedPool) >= 2
       /\ sortedPool[1].metrics.score - sortedPool[2].metrics.score <= 30
       /\ sortedPool[2].metrics.score - sortedPool[1].metrics.score <= 30
       /\ sortedPool[2].changedFiles # {}
       /\ sortedPool[2].newValidationErrors = <<>>
       /\ sortedPool[2].label # selected.label
      THEN sortedPool[2].label ELSE NoPending)

(***************************************************************************)
(* The run orchestrator: the judgement of an attempt                       *)
(***************************************************************************)
DEFAULT_AUTO_REPAIR_ATTEMPTS == 3

NoMarkerBlocks == "PROTOCOL_VIOLATION: No marker blocks found."

CreateWithoutMarker == "PROTOCOL_VIOLATION: Create op found but no filename marker."

ProtocolViolations ==
  { NoMarkerBlocks, CreateWithoutMarker,
    "PROTOCOL_VIOLATION: Patch blocks missing markers and no matching file.",
    "PROTOCOL_VIOLATION: Filename blocks must use fenced code.",
    "PROTOCOL_VIOLATION: Inline patch target ambiguous" }

\* f.startsWith('PROTOCOL_VIOLATION:')
IsProtocolViolation(f) == f.tag \in ProtocolViolations

\* The violations that the auto-repair answers
IsAutoRepairable(v) ==
  v.tag \in { NoMarkerBlocks,
              "PROTOCOL_VIOLATION: Filename blocks must use fenced code.",
              "PROTOCOL_VIOLATION: Patch blocks missing markers and no matching file." }

\* f.startsWith('NO_OP: inline patch')
IsInlineNoOp(f) == f.tag = "NO_OP: inline patch detected but no anchor matched"

\* A repair that ignores the budget of repair attempts
shouldAutoRepairNoBudget(hasHardIssues, hasUsableEdits, repairAttempt, maxRepairAttempts) ==
  hasHardIssues /\ ~hasUsableEdits

\* shouldAutoRepair before the signature is looked at
shouldAutoRepair(hasHardIssues, hasUsableEdits, repairAttempt, maxRepairAttempts) ==
  hasHardIssues /\ ~hasUsableEdits /\ repairAttempt < maxRepairAttempts

\* repairSignature, part by part
RepairSignature(v, t, x, r, h, stage, tc) ==
  [v |-> v, t |-> t, x |-> x, r |-> r, h |-> h, s |-> stage, tc |-> tc]

\* The empty signature a request starts with: no attempt produces it
NoSignature == RepairSignature(<<>>, <<>>, <<>>, <<>>, <<>>, "", 0)

\* What a candidate of the pool looked like
CandidateSummary(c) ==
  [label |-> c.label, files |-> c.files, changed |-> c.changedFiles # {},
   regression |-> c.newValidationErrors # <<>>, preflightOk |-> c.previewPreflight.ok,
   score |-> c.metrics.score]

\* The judgement of handleSend on the outcome of one attempt, up to the
\* decision about a second attempt
\* (attemptedEdit is markerCount > 0: parseResponse adds to parsedBlocksText
\* inside marker blocks only)
LowConfidenceWarning == "LOW_CONFIDENCE"

\* A summary that never carries the warning of low confidence
mergedWarningsUnmarked(mergedWarnings, hasHardIssues, lowConfidence) == mergedWarnings

\* mergedWarningsFinal of handleSend
mergedWarningsFinal(mergedWarnings, hasHardIssues, lowConfidence) ==
  IF ~hasHardIssues /\ lowConfidence
    THEN mergedWarnings \cup {LowConfidenceWarning} ELSE mergedWarnings

judgeSelected(call, outcome, pool, selected, validation, effectiveChangedFiles, violations, technicals, parserHints) ==
  Bind(\/ \E i \in 1..Len(parserHints) : parserHints[i] = "inline_anchor_miss"
       \/ \E i \in 1..Len(outcome.result.failedPatches) :
            IsInlineNoOp(outcome.result.failedPatches[i]), LAMBDA inlineNoOp :
  Bind(outcome.result.markerCount > 0 /\ effectiveChangedFiles = {},
       LAMBDA noEffectiveChanges :
  Bind(Filter(violations, IsAutoRepairable), LAMBDA autoRepairableViolations :
  Bind(\/ ~validation.valid \/ technicals # <<>> \/ autoRepairableViolations # <<>>
       \/ inlineNoOp \/ noEffectiveChanges, LAMBDA hasHardIssues :
    [pool |-> [i \in 1..Len(pool) |-> CandidateSummary(pool[i])],
     selected |-> CandidateSummary(selected),
     pendingApplyCandidate |-> pendingApplyCandidate(scoredPool(pool), selected),
     verifiedFiles |-> selected.files,
     sanitizerChanged |-> selected.changed,
     validation |-> validation,
     failedPatches |-> Len(outcome.result.failedPatches),
     changedFiles |-> Cardinality(effectiveChangedFiles),
     hasUsableEdits |-> effectiveChangedFiles # {} /\ validation.valid,
     attemptedEdit |-> outcome.result.markerCount > 0,
     noEffectiveChanges |-> noEffectiveChanges,
     inlineNoOp |-> inlineNoOp,
     hasHardIssues |-> hasHardIssues,
     hasRuntimeIssues |-> outcome.runtimeErrors # <<>>,
     lowConfidence |-> outcome.result.parserConfidence < LOW_CONFIDENCE_THRESHOLD,
     mergedWarningsFinal |->
       mergedWarningsFinal({}, hasHardIssues,
                           outcome.result.parserConfidence < LOW_CONFIDENCE_THRESHOLD),
     retryDecision |-> shouldTriggerSecondAttempt(
                         RetryDecisionInput(call.qualityMode, call.isRepairCall,
                                            call.attemptIndex, hasHardIssues,
                                            outcome.runtimeErrors # <<>>,
                                            noEffectiveChanges, inlineNoOp)),
     signature |-> RepairSignature(autoRepairableViolations, technicals, validation.errors,
                                   outcome.runtimeErrors, parserHints,
                                   outcome.result.parserStage,
                                   outcome.result.touchedFilesCount)]))))

judgeAttempt(call, outcome) ==
  Bind(candidatePool(call.sourceFiles, call.rollbackBaseline, outcome), LAMBDA pool :
  Bind(selectedCandidate(pool), LAMBDA selected :
    judgeSelected(call, outcome, pool, selected,
                  validateProject(selected.files),
                  getChangedFiles(call.sourceFiles, selected.files),
                  Filter(outcome.result.failedPatches, IsProtocolViolation),
                  Filter(outcome.result.failedPatches, LAMBDA f : ~IsProtocolViolation(f)),
                  unique(outcome.result.repairHints, {}))))

\* A reference that counts every attempt that asks for a repair, whatever
\* its signature
nextRepairSignatureCounting(ref, signature) ==
  [signature |-> signature, count |-> ref.count + 1]

\* lastRepairSignatureRef after an attempt that asks for a repair
nextRepairSignature(ref, signature) ==
  IF ref.signature = signature
    THEN [ref EXCEPT !.count = @ + 1]
    ELSE [signature |-> signature, count |-> 1]

\* The decision about an auto-repair: whether the attempt asks for one,
\* the signature reference after it, and whether the signature repeated
repairDecision(call, judgement) ==
  IF shouldAutoRepair(judgement.hasHardIssues, judgement.hasUsableEdits,
                      call.repairAttempt, call.autoRepairAttempts)
    THEN Bind(nextRepairSignature(call.lastRepairSignature, judgement.signature),
              LAMBDA ref :
           [asked |-> TRUE, ref |-> ref, repeatedRepairSignature |-> ref.count >= 2,
            shouldAutoRepair |-> ref.count < 2])
    ELSE [asked |-> FALSE, ref |-> call.lastRepairSignature,
          repeatedRepairSignature |-> FALSE, shouldAutoRepair |-> FALSE]

(***************************************************************************)
(* The run orchestrator: handleSend                                        *)
(***************************************************************************)
ProjectShell ==
  ("index.html" :> <<"<body>", RootMount, "</body>">>)
    @@ ("input.css" :> TailwindDirectives)
    @@ ("tailwind.config.js" :> <<"module.exports = {};">>)

Project(appContent, index) ==
  ProjectShell @@ ("App.tsx" :> appContent) @@ ("index.tsx" :> index)

ProjectWithoutIndex(appContent) == ProjectShell @@ ("App.tsx" :> appContent)

AppV1 == <<AppComponent, NL, "v1", NL, DefaultExport>>

AppV2 == <<AppComponent, NL, "v2", NL, DefaultExport>>

AppNoExport == <<AppComponent, NL, "v2">>

IndexV1 == <<CssImport, NL, AppImport, NL, CreateRoot>>

IndexV2 == <<CssImport, NL, AppImport, NL, "v2", NL, CreateRoot>>

IndexNoCss == <<AppImport, NL, CreateRoot>>

\* INITIAL_PROJECT_FILES
StarterProject == Project(AppV1, IndexV1)

\* The file sets of the model: valid ones, one without the default export
\* of App.tsx, one whose index.tsx lacks the import of input.css, and two
\* without an entry file
ProjectPool ==
  { StarterProject, Project(AppV2, IndexV1), Project(AppNoExport, IndexV1),
    Project(AppNoExport, IndexV2), Project(AppV2, IndexNoCss),
    ProjectWithoutIndex(AppV1), ProjectWithoutIndex(AppV2) }

\* The workspace a request starts from: the starter project, an edited
\* project, a project that is already invalid, and a project without an
\* entry file
WorkspacePool ==
  { StarterProject, Project(AppV2, IndexV1), Project(AppNoExport, IndexV1),
    ProjectWithoutIndex(AppV1) }

AutoRepairPool == {0, DEFAULT_AUTO_REPAIR_ATTEMPTS}

\* isInitialStarterProject
isInitialStarterProject(files) ==
  /\ Cardinality(DOMAIN files) = Cardinality(DOMAIN StarterProject)
  /\ \A key \in DOMAIN StarterProject :
       key \in DOMAIN files /\ Trim(files[key]) = Trim(StarterProject[key])

ensureSeedWorkspaceFiles(files) == IF DOMAIN files = {} THEN StarterProject ELSE files

\* The confidence parseResponse computes for a result: a result of stage
\* fallback carries the warning of the markerless raw App.tsx content
resultConfidence(files, appliedOps, failedPatches, markerCount, parserStage, touchedFilesCount) ==
  computeParserConfidence(
    [markers |-> [i \in 1..markerCount |-> i],
     appliedOpsTotal |-> appliedOps,
     touchedFiles |-> IF touchedFilesCount > 0 THEN {"App.tsx"} ELSE {},
     newFiles |-> files,
     parserStage |-> parserStage,
     failedPatches |-> failedPatches,
     warnings |-> IF parserStage = "fallback"
                    THEN <<Note("AUTO_INFER: Applied markerless raw App.tsx content.", <<>>)>>
                    ELSE <<>>])

\* The fields of the result of generateAppCode that handleSend reads
ParseResult(files, appliedOps, failedPatches, repairHints, markerCount, parserStage, touchedFilesCount) ==
  Bind(resultConfidence(files, appliedOps, failedPatches, markerCount, parserStage,
                        touchedFilesCount), LAMBDA parserConfidence :
    [files |-> files, appliedOps |-> appliedOps, failedPatches |-> failedPatches,
     repairHints |-> IF parserConfidence < LOW_CONFIDENCE_THRESHOLD
                       THEN Append(repairHints, "low_parser_confidence") ELSE repairHints,
     markerCount |-> markerCount, parserStage |-> parserStage,
     touchedFilesCount |-> touchedFilesCount, parserConfidence |-> parserConfidence])

\* the file names of the model whose extension is in ASSET_EXTENSIONS
AssetFileNames == {"assets/logo.png"}

\* the paths of the model that contain assets/vendor/ or node_modules
VendorPaths == {"assets/vendor/three.module.js", "node_modules/three/index.js"}

ASSET_PREFIX == "__LOCALSHIP_ASSET_V1__:"

\* encodeAssetPayload: the prefix with the metadata, a line end, the base64 text
EncodedAsset == <<ASSET_PREFIX, "{meta}", NL, "base64">>

isAssetFilename(name) == name \in AssetFileNames

isEncodedAssetContent(content) == content # <<>> /\ Head(content) = ASSET_PREFIX

\* the entries generateAppCode leaves out of protocolFiles
isExcludedFromProtocol(files, name) ==
  \/ name \in VendorPaths
  \/ isAssetFilename(name)
  \/ isEncodedAssetContent(files[name])

\* generateAppCode: protocolFiles, which baseFiles is a copy of
protocolFilesOf(currentFiles) ==
  [name \in {n \in DOMAIN currentFiles : ~isExcludedFromProtocol(currentFiles, n)} |->
     currentFiles[name]]

\* The file sets a parse of sourceFiles can return with a change: the parse
\* never removes a path
ChangedPool(sourceFiles) ==
  {f \in ProjectPool : DOMAIN sourceFiles \subseteq DOMAIN f /\ f # sourceFiles}

\* The results of a final parse: every patch applied; one patch applied and
\* one anchor missed; App.tsx taken from markerless raw content, changed or
\* identical; no anchor matched; no marker blocks; a create operation
\* without a filename marker
ResultPool(sourceFiles) ==
  {ParseResult(f, Cardinality(getChangedFiles(sourceFiles, f)), <<>>, <<>>,
               Cardinality(getChangedFiles(sourceFiles, f)), "markers",
               Cardinality(getChangedFiles(sourceFiles, f))) : f \in ChangedPool(sourceFiles)}
  \cup
  {ParseResult(f, 1, <<Note(ReasonNotFound, <<"App.tsx">>)>>, <<>>, 2, "markers",
               Cardinality(getChangedFiles(sourceFiles, f))) : f \in ChangedPool(sourceFiles)}
  \cup
  {ParseResult(f, 0, <<>>, <<>>, 0, "fallback",
               Cardinality(getChangedFiles(sourceFiles, f))) :
     f \in {g \in ChangedPool(sourceFiles) \cup {sourceFiles} :
              getChangedFiles(sourceFiles, g) \subseteq {"App.tsx"}}}
  \cup
  {ParseResult(sourceFiles, 0,
               <<Note(ReasonNotFound, <<"App.tsx">>), Note(MarkerNoOp, <<>>)>>,
               <<"inline_anchor_miss">>, 1, "markers", 0),
   ParseResult(sourceFiles, 0, <<Note(NoMarkerBlocks, <<>>)>>, <<"no_marker_blocks">>,
               0, "raw", 0),
   ParseResult(sourceFiles, 0, <<Note(CreateWithoutMarker, <<>>)>>,
               <<"create_without_filename_marker">>, 0, "raw", 0)}

RuntimeErrorPool == {<<>>, <<"PREVIEW: Uncaught ReferenceError">>}

\* What one attempt brings back: the result of generateAppCode, the last
\* actionable stream snapshot, and the runtime errors reported since the
\* attempt began
AttemptOutcome(result, hadActionableStreamChange, lastActionableFiles, runtimeErrors) ==
  [result |-> result, hadActionableStreamChange |-> hadActionableStreamChange,
   lastActionableFiles |-> lastActionableFiles, runtimeErrors |-> runtimeErrors]

\* The stream snapshots of handleSend: a valid change of App.tsx
StreamPool(sourceFiles) ==
  ChangedPool(sourceFiles) \cap {Project(AppV2, IndexV1), ProjectWithoutIndex(AppV2)}

\* The condition of the stream callback of handleSend under which it
\* records update.files as lastActionableFiles
isActionableUpdate(sourceFiles, update) ==
  \/ getChangedFiles(sourceFiles, update.files) # {}
  \/ update.appliedOps > 0
  \/ update.touchedFilesCount > 0

\* The callback receives the final update as well, the object that
\* generateAppCode returns: an actionable final parse is the last snapshot
\* recorded; behind a final parse that is not actionable an earlier snapshot
\* stays, if there was one
OutcomePool(sourceFiles) ==
  {AttemptOutcome(result, TRUE, result.files, r) :
     result \in {x \in ResultPool(sourceFiles) : isActionableUpdate(sourceFiles, x)},
     r \in RuntimeErrorPool}
  \cup
  {AttemptOutcome(result, FALSE, sourceFiles, r) :
     result \in {x \in ResultPool(sourceFiles) : ~isActionableUpdate(sourceFiles, x)},
     r \in RuntimeErrorPool}
  \cup
  {AttemptOutcome(result, TRUE, f, r) :
     result \in {x \in ResultPool(sourceFiles) : ~isActionableUpdate(sourceFiles, x)},
     f \in StreamPool(sourceFiles), r \in RuntimeErrorPool}

NoJudgement == [kind |-> "none"]

\* What handleSend holds once it has judged the attempt: the selected
\* files, the issues, and the decisions about a second attempt and a repair
Judged(call, judgement, repair) ==
  [kind |-> "judged",
   verifiedFiles |-> judgement.verifiedFiles,
   pool |-> judgement.pool,
   selected |-> judgement.selected,
   pendingApplyCandidate |-> judgement.pendingApplyCandidate,
   failedPatches |-> judgement.failedPatches,
   changedFiles |-> judgement.changedFiles,
   valid |-> judgement.validation.valid,
   hasUsableEdits |-> judgement.hasUsableEdits,
   noEffectiveChanges |-> judgement.noEffectiveChanges,
   inlineNoOp |-> judgement.inlineNoOp,
   hasHardIssues |-> judgement.hasHardIssues,
   hasRuntimeIssues |-> judgement.hasRuntimeIssues,
   lowConfidence |-> judgement.lowConfidence,
   mergedWarningsFinal |-> judgement.mergedWarningsFinal,
   shouldRetry |-> judgement.retryDecision.shouldRetry,
   askedRepair |-> repair.asked,
   shouldAutoRepair |-> repair.shouldAutoRepair,
   repeatedRepairSignature |-> repair.repeatedRepairSignature,
   ref |-> repair.ref]

NoSummary == [kind |-> "none"]

\* setLastSummary at the end of a request
Summary(warnings) == [kind |-> "summary", warnings |-> warnings]

\* The application before a request: a workspace and a configuration
SendReady(files, qualityMode, autoRepairAttempts) ==
  [pc |-> "ready", qualityMode |-> qualityMode, autoRepairAttempts |-> autoRepairAttempts,
   isRepairCall |-> FALSE, repairAttempt |-> 0, attemptIndex |-> 1,
   attemptType |-> "primary", sourceFiles |-> files, rollbackBaseline |-> files,
   files |-> files, isLoading |-> FALSE, runPhase |-> "idle",
   lastRepairSignature |-> [signature |-> NoSignature, count |-> 0],
   originalFiles |-> files, attempts |-> <<>>, last |-> NoJudgement,
   lastSummary |-> NoSummary]

InitSend ==
  /\ preview = PreviewIdle
  /\ requests = RequestsIdle
  /\ session = SessionIdle
  /\ reader = ReaderIdle
  /\ send \in {SendReady(files, q, n) :
                 files \in WorkspacePool, q \in QualityModes, n \in AutoRepairPool}
  /\ patch = PatchIdle
  /\ parse = ParseIdle
  /\ retry = RetryIdle
  /\ scoring = ScoreIdle
  /\ normalizer = NormIdle
  /\ preflight = PreflightIdle
  /\ stream = StreamIdle
  /\ repairLoop = RepairIdle

\* An entry that shows the phase plan for every call, a repair call included
enterAlwaysPlan(call, isRepairCall, repairAttempt, baseFiles, rollbackFiles, attemptIndex, attemptType) ==
  [call EXCEPT !.pc = "generating",
               !.isRepairCall = isRepairCall,
               !.repairAttempt = repairAttempt,
               !.attemptIndex = attemptIndex,
               !.attemptType = attemptType,
               !.sourceFiles = ensureSeedWorkspaceFiles(baseFiles),
               !.rollbackBaseline = rollbackFiles,
               !.isLoading = TRUE,
               !.runPhase = "plan",
               !.lastRepairSignature =
                  IF ~isRepairCall /\ attemptIndex = 1
                    THEN [signature |-> NoSignature, count |-> 0] ELSE @,
               !.attempts = Append(@, attemptType),
               !.last = NoJudgement,
               !.lastSummary = NoSummary]

\* The entry of a call of handleSend, up to the call of generateAppCode:
\* the phase is plan for the primary attempt and for the second attempt,
\* repair for a repair call
enter(call, isRepairCall, repairAttempt, baseFiles, rollbackFiles, attemptIndex, attemptType) ==
  [call EXCEPT !.pc = "generating",
               !.isRepairCall = isRepairCall,
               !.repairAttempt = repairAttempt,
               !.attemptIndex = attemptIndex,
               !.attemptType = attemptType,
               !.sourceFiles = ensureSeedWorkspaceFiles(baseFiles),
               !.rollbackBaseline = rollbackFiles,
               !.isLoading = TRUE,
               !.runPhase = IF isRepairCall THEN "repair" ELSE "plan",
               !.lastRepairSignature =
                  IF ~isRepairCall /\ attemptIndex = 1
                    THEN [signature |-> NoSignature, count |-> 0] ELSE @,
               !.attempts = Append(@, attemptType),
               !.last = NoJudgement,
               !.lastSummary = NoSummary]

\* The user sends a request: the primary attempt begins
SendPrimary ==
  /\ send.pc = "ready"
  /\ ~send.isLoading
  /\ send' = enter(send, FALSE, 0, send.files, ensureSeedWorkspaceFiles(send.files), 1,
                   "primary")
  /\ UNCHANGED <<patch, parse, retry, scoring, normalizer, preflight, stream, repairLoop, reader, session, requests, preview>>

\* The stream callback of handleSend on an update that is not final: the
\* phase follows the patch signals of the partial parse unless a repair runs
SendStreamUpdate ==
  /\ send.pc = "generating"
  /\ \E hasPatchSignals \in BOOLEAN :
       send' = [send EXCEPT
                  !.runPhase = IF @ = "repair" THEN @
                               ELSE IF hasPatchSignals THEN "patch" ELSE "plan"]
  /\ UNCHANGED <<patch, parse, retry, scoring, normalizer, preflight, stream, repairLoop, reader, session, requests, preview>>

\* generateAppCode returns a result parsed against its protocolFiles:
\* handleSend selects a candidate, takes its files
\* over if the sanitizer changed them, and judges the attempt; the phase
\* is set to validate and, after validateProject, to preview-check within
\* the same step
SendJudge ==
  /\ send.pc = "generating"
  /\ \E outcome \in OutcomePool(protocolFilesOf(send.sourceFiles)) :
       Bind(judgeAttempt(send, outcome), LAMBDA judgement :
         send' = [send EXCEPT
                    !.pc = "judged",
                    !.files = IF judgement.sanitizerChanged
                                THEN judgement.verifiedFiles ELSE @,
                    !.runPhase = IF @ = "repair" THEN "repair" ELSE "preview-check",
                    !.last = Judged(send, judgement, repairDecision(send, judgement))])
  /\ UNCHANGED <<patch, parse, retry, scoring, normalizer, preflight, stream, repairLoop, reader, session, requests, preview>>

\* handleSend runs the second attempt
SendRetry ==
  /\ send.pc = "judged"
  /\ send.last.shouldRetry
  /\ send.attemptIndex < MaxAttemptIndex
  /\ send' = enter(send, FALSE, send.repairAttempt, send.sourceFiles,
                   send.last.verifiedFiles, send.attemptIndex + 1, "retry")
  /\ UNCHANGED <<patch, parse, retry, scoring, normalizer, preflight, stream, repairLoop, reader, session, requests, preview>>

\* handleSend runs a repair attempt
SendRepair ==
  /\ send.pc = "judged"
  /\ ~send.last.shouldRetry
  /\ send.last.shouldAutoRepair
  /\ send' = enter([send EXCEPT !.lastRepairSignature = send.last.ref],
                   TRUE, send.repairAttempt + 1, send.last.verifiedFiles,
                   send.rollbackBaseline, send.attemptIndex, "repair")
  /\ UNCHANGED <<patch, parse, retry, scoring, normalizer, preflight, stream, repairLoop, reader, session, requests, preview>>

\* The attempt has issues and no further attempt follows: the generated
\* files are kept with warnings or the rollback baseline is restored
SendEndWithIssues ==
  /\ send.pc = "judged"
  /\ ~send.last.shouldRetry
  /\ ~send.last.shouldAutoRepair
  /\ send.last.hasHardIssues \/ send.last.hasRuntimeIssues
  /\ LET keepGeneratedFiles == \/ send.last.hasUsableEdits
                               \/ ~send.last.hasHardIssues /\ send.last.hasRuntimeIssues
     IN  send' = [send EXCEPT
                    !.pc = "done",
                    !.files = IF keepGeneratedFiles THEN send.last.verifiedFiles
                              ELSE send.rollbackBaseline,
                    !.isLoading = FALSE,
                    !.runPhase = IF keepGeneratedFiles THEN "finalize" ELSE "failed",
                    !.lastRepairSignature = send.last.ref,
                    !.lastSummary = Summary(send.last.mergedWarningsFinal)]
  /\ UNCHANGED <<patch, parse, retry, scoring, normalizer, preflight, stream, repairLoop, reader, session, requests, preview>>

\* The attempt has no issues: the update is completed
SendFinalize ==
  /\ send.pc = "judged"
  /\ ~send.last.shouldRetry
  /\ ~send.last.shouldAutoRepair
  /\ ~(send.last.hasHardIssues \/ send.last.hasRuntimeIssues)
  /\ send' = [send EXCEPT !.pc = "done",
                          !.files = send.last.verifiedFiles,
                          !.isLoading = FALSE,
                          !.runPhase = "finalize",
                          !.lastRepairSignature = send.last.ref,
                          !.lastSummary = Summary(send.last.mergedWarningsFinal)]
  /\ UNCHANGED <<patch, parse, retry, scoring, normalizer, preflight, stream, repairLoop, reader, session, requests, preview>>

\* A catch that restores the files but leaves the request loading
SendCatchStillLoading ==
  /\ send.pc = "generating"
  /\ send' = [send EXCEPT !.pc = "done",
                          !.files = send.rollbackBaseline,
                          !.last = [kind |-> "thrown"]]
  /\ UNCHANGED <<patch, parse, retry, scoring, normalizer, preflight, stream, repairLoop, reader, session, requests, preview>>

\* generateAppCode throws
SendCatch ==
  /\ send.pc = "generating"
  /\ send' = [send EXCEPT !.pc = "done",
                          !.files = send.rollbackBaseline,
                          !.isLoading = FALSE,
                          !.runPhase = "failed",
                          !.last = [kind |-> "thrown"]]
  /\ UNCHANGED <<patch, parse, retry, scoring, normalizer, preflight, stream, repairLoop, reader, session, requests, preview>>

NextSend ==
  \/ SendPrimary \/ SendStreamUpdate \/ SendJudge \/ SendRetry \/ SendRepair \/ SendEndWithIssues
  \/ SendFinalize \/ SendCatch

SpecSend == InitSend /\ [][NextSend]_vars

\* handleSend runs on after every step, and a call of generateAppCode
\* returns or throws: SendCatch is enabled exactly while the call runs, so
\* its weak fairness says that the call does not run forever
SpecSendFair ==
  /\ SpecSend
  /\ WF_vars(SendPrimary)
  /\ WF_vars(SendCatch)
  /\ WF_vars(SendRetry)
  /\ WF_vars(SendRepair)
  /\ WF_vars(SendEndWithIssues)
  /\ WF_vars(SendFinalize)

(***************************************************************************)
(* parseResponse: the text normalisers, run on their own output            *)
(***************************************************************************)
MaxNormLen == 3

\* The lexemes of the texts the normalisers are run on: program text, the
\* wrappers normalizeToolMarkers removes or converts, a closing tag without
\* its ">", a dangling "</", and the two pieces of a wrapper
NormLexemes ==
  { "x", NL, "</patch>", "</function>", "<tool>", "<patch: App.tsx>", "</replace",
    Dangling, "</pat", "ch>", "<to", "ol>" }

RECURSIVE NormTexts(_)
NormTexts(n) ==
  IF n = 0 THEN {<<>>}
  ELSE {<<>>} \cup {<<c>> \o t : c \in NormLexemes, t \in NormTexts(n - 1)}

\* The texts of the pool: a string has one sequence of lexemes
NormPool == {t \in NormTexts(MaxNormLen) : Glue(t) = t}

InitNorm ==
  /\ preview = PreviewIdle
  /\ requests = RequestsIdle
  /\ session = SessionIdle
  /\ reader = ReaderIdle
  /\ normalizer \in [pc : {"text"}, text : NormPool, once : {<<>>}, twice : {<<>>}]
  /\ patch = PatchIdle
  /\ parse = ParseIdle
  /\ retry = RetryIdle
  /\ scoring = ScoreIdle
  /\ send = SendIdle
  /\ preflight = PreflightIdle
  /\ stream = StreamIdle
  /\ repairLoop = RepairIdle

\* parseResponse normalises the text
NormOnce ==
  /\ normalizer.pc = "text"
  /\ normalizer' = [normalizer EXCEPT !.pc = "once",
                                      !.once = normalizePatchText(normalizer.text)]
  /\ UNCHANGED <<patch, parse, retry, scoring, send, preflight, stream, repairLoop, reader, session, requests, preview>>

\* The normalisers are run on the text they returned
NormTwice ==
  /\ normalizer.pc = "once"
  /\ normalizer' = [normalizer EXCEPT !.pc = "twice",
                                      !.twice = normalizePatchText(normalizer.once)]
  /\ UNCHANGED <<patch, parse, retry, scoring, send, preflight, stream, repairLoop, reader, session, requests, preview>>

NextNorm == NormOnce \/ NormTwice

SpecNorm == InitNorm /\ [][NextNorm]_vars

(***************************************************************************)
(* The preview preflight, run on projects with and without an entry file   *)
(***************************************************************************)
MaxEntries == 2

\* The contents of an entry file: empty, white space only, the starter
\* entry with its import of App, and an entry without an import
EntryContentPool == {<<>>, <<SP, NL>>, IndexV1, <<CreateRoot>>}

\* index.html: none, one with the root mount, one with a body and no
\* mount, one with neither
HtmlPool ==
  { <<>>, <<"<body>", RootMount, "</body>">>, <<"<body>", "<main>", "</body>">>,
    <<"<main>">> }

\* The App module of the project: none, or one beside a root entry or
\* beside an entry in src/, with or without its default export
AppFilesPool ==
  { <<>> } \cup {k :> c : k \in {"App.tsx", "src/App.tsx"}, c \in {AppV1, AppNoExport}}

\* Up to MaxEntries entry files with their contents
EntryFilesPool ==
  UNION {[names -> EntryContentPool] :
           names \in {e \in SUBSET {entryCandidates[i] : i \in 1..Len(entryCandidates)} :
                        Cardinality(e) <= MaxEntries}}

PreflightFilesPool ==
  {(IF html = <<>> THEN <<>> ELSE "index.html" :> html) @@ app @@ entries :
     html \in HtmlPool, app \in AppFilesPool, entries \in EntryFilesPool}

InitPreflight ==
  /\ preview = PreviewIdle
  /\ requests = RequestsIdle
  /\ session = SessionIdle
  /\ reader = ReaderIdle
  /\ preflight \in [pc : {"call"}, files : PreflightFilesPool,
                    result : {PreviewPreflightResult(<<>>, <<>>, NoFile, <<>>, <<>>)}]
  /\ patch = PatchIdle
  /\ parse = ParseIdle
  /\ retry = RetryIdle
  /\ scoring = ScoreIdle
  /\ send = SendIdle
  /\ normalizer = NormIdle
  /\ stream = StreamIdle
  /\ repairLoop = RepairIdle

\* runPreviewPreflight(files) returns
PreflightRun ==
  /\ preflight.pc = "call"
  /\ preflight' = [preflight EXCEPT !.pc = "done",
                                    !.result = runPreviewPreflight(preflight.files)]
  /\ UNCHANGED <<patch, parse, retry, scoring, send, normalizer, stream, repairLoop, reader, session, requests, preview>>

NextPreflight == PreflightRun

SpecPreflight == InitPreflight /\ [][NextPreflight]_vars

(***************************************************************************)
(* handleSend: the auto-repair loop over the failure signatures            *)
(***************************************************************************)
MaxBudget == 4

\* Failure signatures of attempts: three that differ in the technical
\* failure the parse reports
SignaturePool ==
  {RepairSignature(<<>>, <<Note(t, <<"App.tsx">>)>>, <<>>, <<>>, <<>>, "markers", 0) :
     t \in {ReasonNotFound, ReasonAmbiguous, ReasonNoOps}}

\* A request whose primary attempt is about to be judged
RepairStart(autoRepairAttempts) ==
  [pc |-> "attempt", autoRepairAttempts |-> autoRepairAttempts, repairAttempt |-> 0,
   lastRepairSignature |-> [signature |-> NoSignature, count |-> 0],
   signatures |-> <<>>, repeatedRepairSignature |-> FALSE, shouldAutoRepair |-> FALSE,
   hasUsableEdits |-> FALSE]

InitRepair ==
  /\ preview = PreviewIdle
  /\ requests = RequestsIdle
  /\ session = SessionIdle
  /\ reader = ReaderIdle
  /\ repairLoop \in {RepairStart(n) : n \in 0..MaxBudget}
  /\ patch = PatchIdle
  /\ parse = ParseIdle
  /\ retry = RetryIdle
  /\ scoring = ScoreIdle
  /\ send = SendIdle
  /\ normalizer = NormIdle
  /\ preflight = PreflightIdle
  /\ stream = StreamIdle

\* The attempt is judged: it has a usable edit, or it has hard issues with
\* some failure signature, and handleSend decides about a repair
RepairJudge ==
  /\ repairLoop.pc = "attempt"
  /\ \E hasUsableEdits \in BOOLEAN, signature \in SignaturePool :
       Bind(repairDecision(repairLoop, [hasHardIssues |-> TRUE,
                                    hasUsableEdits |-> hasUsableEdits,
                                    signature |-> signature]), LAMBDA decision :
         repairLoop' = [repairLoop EXCEPT
                      !.pc = "judged",
                      !.lastRepairSignature = decision.ref,
                      !.signatures = IF hasUsableEdits THEN @ ELSE Append(@, signature),
                      !.repeatedRepairSignature = decision.repeatedRepairSignature,
                      !.shouldAutoRepair = decision.shouldAutoRepair,
                      !.hasUsableEdits = hasUsableEdits])
  /\ UNCHANGED <<patch, parse, retry, scoring, send, normalizer, preflight, stream, reader, session, requests, preview>>

\* handleSend calls itself for a repair attempt
RepairAgain ==
  /\ repairLoop.pc = "judged"
  /\ repairLoop.shouldAutoRepair
  /\ repairLoop' = [repairLoop EXCEPT !.pc = "attempt", !.repairAttempt = @ + 1]
  /\ UNCHANGED <<patch, parse, retry, scoring, send, normalizer, preflight, stream, reader, session, requests, preview>>

\* No repair follows: the request ends
RepairEnd ==
  /\ repairLoop.pc = "judged"
  /\ ~repairLoop.shouldAutoRepair
  /\ repairLoop' = [repairLoop EXCEPT !.pc = "done"]
  /\ UNCHANGED <<patch, parse, retry, scoring, send, normalizer, preflight, stream, reader, session, requests, preview>>

NextRepair == RepairJudge \/ RepairAgain \/ RepairEnd

SpecRepair == InitRepair /\ [][NextRepair]_vars

(***************************************************************************)
(* generateAppCode: the stream of content deltas and its emissions         *)
(***************************************************************************)
MaxDeltas == 3

INTERNAL_RETRY_LIMIT == 2

streamMinEmitChars == 80

BadTokens == {"<|im_start|>", "<|im_end|>"}

\* The lexemes /<tool_call>|<toolcall>|<tool>|<function_call>/i matches
ToolWrapperOpenings == {"<tool_call>", "<tool>"}

\* The lexemes the looksParseable pattern of generateAppCode matches
ParseableLexemes ==
  MarkerLexemes \cup {Fence, "<replace>", "<find>", "<with>", ExportDefault, RawApp}

\* The texts a model streams: a patch that applies, a patch behind prose
\* whose anchor misses, reasoning before a patch, prose, an operation in a
\* tool wrapper, special tokens only, and a raw App.tsx
StreamTexts ==
  { <<"<!-- patch: App.tsx -->", NL>> \o Ser("replace", <<"x">>, <<"x", NL, "z">>),
    <<"y", NL, "<!-- patch: App.tsx -->", NL>> \o Ser("replace", <<"q">>, <<"z">>),
    <<"<think>", "q", "</think>", "<!-- patch: App.tsx -->", NL>>
      \o Ser("replace", <<"x">>, <<"z">>),
    <<"y">>,
    <<"<tool_call>", NL>> \o Ser("replace", <<"q">>, <<"z">>),
    <<"<|im_end|>">>,
    <<"y", NL, RawApp>> }

RECURSIVE SplitAt(_, _)
SplitAt(text, cuts) ==
  IF cuts = {} THEN <<text>>
  ELSE Bind(CHOOSE c \in cuts : \A d \in cuts : d <= c, LAMBDA m :
         Append(SplitAt(SubSeq(text, 1, m), cuts \ {m}), SubSeq(text, m + 1, Len(text))))

\* The ways a text arrives as up to MaxDeltas content deltas
Splits(text) ==
  {SplitAt(text, cuts) :
     cuts \in {c \in SUBSET (1..(Len(text) - 1)) : Cardinality(c) < MaxDeltas}}

DeltaPool == UNION {Splits(text) : text \in StreamTexts}

\* What a re-generation streams: each text in one delta, and the patch that
\* applies in two
RegenerationPool ==
  {<<text>> : text \in StreamTexts}
    \cup {<<<<"<!-- patch: App.tsx -->", NL>>, Ser("replace", <<"x">>, <<"x", NL, "z">>)>>}

StreamFiles == ("App.tsx" :> <<"x", NL, "y">>) @@ ("index.tsx" :> <<"y">>)

NoUpdate == [kind |-> "none"]

\* The StreamUpdate handed to onStreamUpdate, with the fields the stream
\* adds to the result of parseResponse
Emitted(P, isFinal, deltaRaw, deltaClean) ==
  [kind |-> "update", isFinal |-> isFinal, files |-> P.newFiles,
   rawText |-> P.contentStream, cleanText |-> P.textClean,
   markerCount |-> Len(P.markers), appliedOps |-> P.appliedOpsTotal,
   touchedFiles |-> P.touchedFiles, failedPatches |-> P.failedPatches,
   parseMode |-> P.parseMode, deltaRaw |-> deltaRaw, deltaClean |-> deltaClean]

\* generateAppCode at the start of a stream: the locals of the call, the
\* deltas still to arrive, what onStreamUpdate has received, and the call
\* of parseResponse whose return is awaited
StreamStart(currentFiles, deltas, streamApplyEnabled, retryAttempt) ==
  [pc |-> "streaming", currentFiles |-> currentFiles, baseFiles |-> currentFiles,
   deltas |-> deltas, arrived |-> <<>>, rawContent |-> <<>>, rawModelLog |-> <<>>,
   sawMarkers |-> FALSE, lastRawLen |-> 0, lastCleanLen |-> 0,
   emittedBefore |-> FALSE, pendingStreamChars |-> 0,
   streamApplyEnabled |-> streamApplyEnabled, retryAttempt |-> retryAttempt,
   received |-> [raw |-> <<>>, clean |-> <<>>, updates |-> 0], update |-> NoUpdate,
   awaiting |-> "none"]

\* The call of parseResponse by generateAppCode: the whole content and
\* baseFiles
parseCall(S, isFinal, applyToFiles, parseMode) ==
  ParseCall(S.rawContent, S.baseFiles, isFinal, applyToFiles, parseMode)

\* An emission that keeps the files of its parse as the base of the next
emitUpdateCompounding(S, P, isFinal) ==
  Bind(Slice(S.rawModelLog, S.lastRawLen, Len(S.rawModelLog)), LAMBDA deltaRaw :
  Bind(Slice(P.textClean, S.lastCleanLen, Len(P.textClean)), LAMBDA deltaClean :
    [S EXCEPT !.baseFiles = P.newFiles,
              !.lastRawLen = Len(S.rawModelLog),
              !.lastCleanLen = Len(P.textClean),
              !.sawMarkers = @ \/ Len(P.markers) > 0,
              !.received = [raw |-> @.raw \o deltaRaw, clean |-> @.clean \o deltaClean,
                            updates |-> @.updates + 1],
              !.update = Emitted(P, isFinal, deltaRaw, deltaClean),
              !.awaiting = "none"]))

\* emitUpdate behind its call of parseResponse, which has returned P: the
\* deltas are the text behind the lengths of the previous emission
emitUpdate(S, P, isFinal) ==
  Bind(Slice(S.rawModelLog, S.lastRawLen, Len(S.rawModelLog)), LAMBDA deltaRaw :
  Bind(Slice(P.textClean, S.lastCleanLen, Len(P.textClean)), LAMBDA deltaClean :
    [S EXCEPT !.lastRawLen = Len(S.rawModelLog),
              !.lastCleanLen = Len(P.textClean),
              !.sawMarkers = @ \/ Len(P.markers) > 0,
              !.received = [raw |-> @.raw \o deltaRaw, clean |-> @.clean \o deltaClean,
                            updates |-> @.updates + 1],
              !.update = Emitted(P, isFinal, deltaRaw, deltaClean),
              !.awaiting = "none"]))

\* handleDelta for a delta of assistant content, up to its call of
\* emitUpdate; elapsed says whether streamCadenceMs have passed since the
\* last emission, and before the first emission they have
handleDelta(S, c, elapsed) ==
  Bind([S EXCEPT !.deltas = Tail(@), !.arrived = Append(@, c),
                 !.rawContent = @ \o c, !.rawModelLog = @ \o c,
                 !.pendingStreamChars = @ + Length(c)], LAMBDA S1 :
    IF S1.pendingStreamChars >= streamMinEmitChars \/ ~S.emittedBefore \/ elapsed
      THEN [S1 EXCEPT !.awaiting = "emit"]
      ELSE S1)

\* The raw text consists of special tokens
specialTokensOnly(S) ==
  /\ \E i \in 1..Len(S.rawModelLog) : S.rawModelLog[i] \in BadTokens
  /\ Trim(RemoveAll(S.rawModelLog, BadTokens)) = <<>>

\* The retry probe has no actionable patch, and the raw text has a tool
\* wrapper or looks parseable
probeAsksRetry(S, retryProbe) ==
  /\ ~(retryProbe.touchedFiles # {} \/ retryProbe.appliedOpsTotal > 0)
  /\ \E i \in 1..Len(S.rawModelLog) :
       S.rawModelLog[i] \in ToolWrapperOpenings \cup ParseableLexemes

\* An end of the stream that asks for a re-generation whatever retryAttempt is
streamEndUnlimited(S) ==
  IF specialTokensOnly(S) THEN "retryUpdate"
  ELSE IF ~S.sawMarkers THEN "probe"
  ELSE "final"

\* generateAppCode behind the last delta: the call of parseResponse it
\* makes first, for the retry on special tokens, for the retry probe when
\* no emission saw a marker, or for the final emission
streamEnd(S) ==
  IF S.retryAttempt < INTERNAL_RETRY_LIMIT /\ specialTokensOnly(S) THEN "retryUpdate"
  ELSE IF S.retryAttempt < INTERNAL_RETRY_LIMIT /\ ~S.sawMarkers THEN "probe"
  ELSE "final"

\* parseResponse has returned P to generateAppCode
streamParsed(S, P) ==
  CASE S.awaiting = "emit" ->
         [emitUpdate(S, P, FALSE) EXCEPT !.emittedBefore = TRUE, !.pendingStreamChars = 0]
    [] S.awaiting = "retryUpdate" ->
         [S EXCEPT !.pc = "regenerate", !.awaiting = "none", !.received.updates = @ + 1,
                   !.update = Emitted(P, FALSE, <<>>, <<>>)]
    [] S.awaiting = "probe" ->
         IF probeAsksRetry(S, P)
           THEN [S EXCEPT !.pc = "regenerate", !.awaiting = "none",
                          !.received.updates = @ + 1,
                          !.update = Emitted(P, FALSE, <<>>, <<>>)]
           ELSE [S EXCEPT !.awaiting = "final"]
    [] S.awaiting = "final" -> [emitUpdate(S, P, TRUE) EXCEPT !.pc = "returned"]

\* The call of parseResponse for what generateAppCode awaits
awaitedCall(S) ==
  CASE S.awaiting = "none" -> ParseIdle
    [] S.awaiting = "emit" ->
         parseCall(S, FALSE, S.streamApplyEnabled,
                   IF S.streamApplyEnabled THEN "final-full" ELSE "stream-lite")
    [] S.awaiting = "retryUpdate" -> parseCall(S, FALSE, FALSE, "final-full")
    [] S.awaiting = "probe" -> parseCall(S, FALSE, TRUE, "final-full")
    [] S.awaiting = "final" -> parseCall(S, TRUE, TRUE, "final-full")

InitStream ==
  /\ preview = PreviewIdle
  /\ requests = RequestsIdle
  /\ session = SessionIdle
  /\ reader = ReaderIdle
  /\ stream \in {StreamStart(StreamFiles, deltas, streamApplyEnabled, 0) :
                   deltas \in DeltaPool, streamApplyEnabled \in BOOLEAN}
  /\ patch = PatchIdle
  /\ parse = ParseIdle
  /\ retry = RetryIdle
  /\ scoring = ScoreIdle
  /\ send = SendIdle
  /\ normalizer = NormIdle
  /\ preflight = PreflightIdle
  /\ repairLoop = RepairIdle

\* A content delta arrives; handleDelta calls emitUpdate, and with it
\* parseResponse, when the cadence says so
StreamDelta ==
  /\ stream.pc = "streaming"
  /\ stream.awaiting = "none"
  /\ stream.deltas # <<>>
  /\ \E elapsed \in BOOLEAN : stream' = handleDelta(stream, Head(stream.deltas), elapsed)
  /\ parse' = awaitedCall(stream')
  /\ UNCHANGED <<patch, retry, scoring, send, normalizer, preflight, repairLoop, reader, session, requests, preview>>

\* The stream ends
StreamEnd ==
  /\ stream.pc = "streaming"
  /\ stream.awaiting = "none"
  /\ stream.deltas = <<>>
  /\ stream' = [stream EXCEPT !.awaiting = streamEnd(stream)]
  /\ parse' = awaitedCall(stream')
  /\ UNCHANGED <<patch, retry, scoring, send, normalizer, preflight, repairLoop, reader, session, requests, preview>>

\* parseResponse returns to generateAppCode: the update is emitted, a
\* re-generation is decided, or the final parse follows the retry probe
StreamParsed ==
  /\ stream.awaiting # "none"
  /\ parse.pc = "done"
  /\ stream' = streamParsed(stream, parse)
  /\ parse' = awaitedCall(stream')
  /\ UNCHANGED <<patch, retry, scoring, send, normalizer, preflight, repairLoop, reader, session, requests, preview>>

\* generateAppCode calls itself with retryAttempt + 1: a new request, a new
\* stream
StreamRegenerate ==
  /\ stream.pc = "regenerate"
  /\ \E deltas \in RegenerationPool :
       stream' = StreamStart(stream.currentFiles, deltas, stream.streamApplyEnabled,
                             stream.retryAttempt + 1)
  /\ UNCHANGED <<patch, parse, retry, scoring, send, normalizer, preflight, repairLoop, reader, session, requests, preview>>

NextStream ==
  \/ StreamDelta \/ StreamEnd \/ StreamParsed \/ StreamRegenerate
  \/ ParseNormalize \/ ParseMarkerless \/ ParseBlock \/ ParseRescue \/ ParseFinish

SpecStream == InitStream /\ [][NextStream]_vars

(***************************************************************************)
(* generateAppCode: the read loop over the event stream of the response.   *)
(* The bytes on the wire are a sequence of lexemes: the field name         *)
(* "data:", the pieces of a JSON payload ("{", the content, "}"), the      *)
(* terminator "[DONE]", spaces and line ends.  reader.read() hands them    *)
(* over in chunks of any length.                                           *)
(***************************************************************************)
MaxFrames == 2

DataField == "data:"
DoneToken == "[DONE]"
JsonOpen == "{"
JsonClose == "}"
CommentLine == ": keep-alive"

WireContents == {"a", "b"}

\* the frames a server sends: an event with a content delta ended by a
\* blank line, the same with CR LF line ends, a data line ended by one line
\* end, an event whose JSON is cut short, and a comment event
FrameKinds == {"event", "crlf", "line", "undecodable", "comment"}

FramePool ==
  {[kind |-> "event", content |-> c] : c \in WireContents}
    \cup {[kind |-> "crlf", content |-> "a"], [kind |-> "line", content |-> "b"],
          [kind |-> "undecodable", content |-> "a"], [kind |-> "comment", content |-> "a"]}

EncodeFrame(f) ==
  CASE f.kind = "event" -> <<DataField, SP, JsonOpen, f.content, JsonClose, NL, NL>>
    [] f.kind = "crlf" -> <<DataField, JsonOpen, f.content, JsonClose, CR, NL, CR, NL>>
    [] f.kind = "line" -> <<DataField, SP, JsonOpen, f.content, JsonClose, NL>>
    [] f.kind = "undecodable" -> <<DataField, SP, JsonOpen, f.content, NL, NL>>
    [] OTHER -> <<CommentLine, NL, NL>>

RECURSIVE EncodeFrames(_)
EncodeFrames(frames) ==
  IF frames = <<>> THEN <<>> ELSE EncodeFrame(Head(frames)) \o EncodeFrames(Tail(frames))

DoneFrame == <<DataField, SP, DoneToken, NL, NL>>

\* the whole response body: the frames, then [DONE] when the server sends it
WireOf(frames, withDone) == EncodeFrames(frames) \o (IF withDone THEN DoneFrame ELSE <<>>)

FrameSeqs == UNION {[1..n -> FramePool] : n \in 1..MaxFrames}

\* JSON.parse(payload) followed by choices[0].delta.content: the content
\* delta of the frame, <<>> for a delta without content; a payload that is
\* not one complete object throws
JsonDecodes(payload) ==
  /\ Len(payload) \in {2, 3}
  /\ Head(payload) = JsonOpen
  /\ payload[Len(payload)] = JsonClose
  /\ Len(payload) = 3 => payload[2] \notin {JsonOpen, JsonClose, DataField, DoneToken}

deltaContent(payload) == IF Len(payload) = 3 THEN <<payload[2]>> ELSE <<>>

\* buffer.replace(/\r\n/g, "\n")
RECURSIVE replaceCrLf(_)
replaceCrLf(t) ==
  IF t = <<>> THEN <<>>
  ELSE IF Head(t) = CR /\ Len(t) >= 2 /\ t[2] = NL
       THEN <<NL>> \o replaceCrLf(Tail(Tail(t)))
       ELSE <<Head(t)>> \o replaceCrLf(Tail(t))

\* text.split("\n\n")
RECURSIVE splitEventsFrom(_, _)
splitEventsFrom(s, acc) ==
  IF s = <<>> THEN <<acc>>
  ELSE IF Len(s) >= 2 /\ s[1] = NL /\ s[2] = NL
       THEN <<acc>> \o splitEventsFrom(Tail(Tail(s)), <<>>)
       ELSE splitEventsFrom(Tail(s), Append(acc, Head(s)))

splitEvents(text) == splitEventsFrom(text, <<>>)

\* a read loop that forgets the unfinished event at the end of the buffer
leftoversDropped(events) == <<>>

\* const leftovers = events.pop() || ""
leftoversOf(events) == events[Len(events)]

\* handleDelta, the content channel: if (c) rawContent += c
handleDeltaContent(R, c) == [R EXCEPT !.rawContent = @ \o c]

\* the body of the loop over the lines of one event
processLine(R, line) ==
  Bind(Trim(line), LAMBDA trimmed :
    IF trimmed = <<>> \/ Head(trimmed) # DataField THEN R
    ELSE Bind(Trim(Tail(trimmed)), LAMBDA payload :
           IF payload = <<DoneToken>> THEN [R EXCEPT !.shouldStop = TRUE]
           ELSE IF JsonDecodes(payload) THEN handleDeltaContent(R, deltaContent(payload))
           ELSE R))

RECURSIVE processLines(_, _)
processLines(R, lines) ==
  IF lines = <<>> THEN R ELSE processLines(processLine(R, Head(lines)), Tail(lines))

RECURSIVE processEventList(_, _)
processEventList(R, events) ==
  IF events = <<>> THEN R
  ELSE processEventList(processLines(R, Split(Head(events), NL)), Tail(events))

\* processEvents(text), with buffer = the leftovers it returns
processEvents(R, text) ==
  Bind(splitEvents(text), LAMBDA events :
    [processEventList(R, SubSeq(events, 1, Len(events) - 1)) EXCEPT
       !.buffer = leftoversOf(events)])

\* the state of generateAppCode after fetch: nothing read yet
ReaderStart(frames, withDone) ==
  [pc |-> "reading", frames |-> frames, withDone |-> withDone,
   wire |-> WireOf(frames, withDone), chunks |-> 0,
   buffer |-> <<>>, rawContent |-> <<>>, shouldStop |-> FALSE]

InitReader ==
  /\ preview = PreviewIdle
  /\ requests = RequestsIdle
  /\ session = SessionIdle
  /\ patch = PatchIdle
  /\ parse = ParseIdle
  /\ retry = RetryIdle
  /\ scoring = ScoreIdle
  /\ send = SendIdle
  /\ normalizer = NormIdle
  /\ preflight = PreflightIdle
  /\ stream = StreamIdle
  /\ repairLoop = RepairIdle
  /\ reader \in {ReaderStart(frames, withDone) : frames \in FrameSeqs, withDone \in BOOLEAN}

\* one turn of while (!shouldStop): reader.read() returns the next n
\* lexemes of the body
ReaderRead ==
  /\ reader.pc = "reading"
  /\ ~reader.shouldStop
  /\ reader.wire # <<>>
  /\ \E n \in 1..Len(reader.wire) :
       reader' = [processEvents(reader, replaceCrLf(reader.buffer \o SubSeq(reader.wire, 1, n)))
                    EXCEPT !.wire = SliceFrom(reader.wire, n), !.chunks = reader.chunks + 1]
  /\ UNCHANGED <<patch, parse, retry, scoring, send, normalizer, preflight, stream, repairLoop, session, requests, preview>>

\* the loop is left on done or on [DONE]: what is left in the buffer is
\* processed as a last event
ReaderClose ==
  /\ reader.pc = "reading"
  /\ reader.shouldStop \/ reader.wire = <<>>
  /\ reader' = [(IF Trim(reader.buffer) # <<>>
                 THEN processEvents(reader, reader.buffer \o <<NL, NL>>)
                 ELSE reader) EXCEPT !.pc = "closed"]
  /\ UNCHANGED <<patch, parse, retry, scoring, send, normalizer, preflight, stream, repairLoop, session, requests, preview>>

NextReader == ReaderRead \/ ReaderClose

SpecReader == InitReader /\ [][NextReader]_vars

(***************************************************************************)
(* App: invocations of handleSend against the loading flag.  chatState is  *)
(* React state: setChatState queues the new value, and the handleSend a    *)
(* caller holds is the closure of one render, which reads the chatState    *)
(* of that render.                                                         *)
(***************************************************************************)
MaxInvocations == 2
MaxAttempts == 2

RunIds == 1..MaxInvocations

NoRun == [pc |-> "none", attempt |-> 0, closureLoading |-> FALSE]

\* no prompt text is involved here: every invocation has a prompt
SessionStart ==
  [pc |-> "ui", isLoading |-> FALSE, renderLoading |-> FALSE,
   runs |-> [r \in RunIds |-> NoRun], invocations |-> 0, filesWrittenBy |-> <<>>]

\* if (!rawPromptText || chatState.isLoading) return; with chatState the
\* one of the render the closure belongs to
guardPasses(S, closureLoading) == ~closureLoading

generating(S) == {r \in RunIds : S.runs[r].pc = "generating"}

\* setChatState(prev => ({ ...prev, files })) by run r
writeFiles(S, r) == [S EXCEPT !.filesWrittenBy = Append(@, r)]

InitSession ==
  /\ preview = PreviewIdle
  /\ requests = RequestsIdle
  /\ patch = PatchIdle
  /\ parse = ParseIdle
  /\ retry = RetryIdle
  /\ scoring = ScoreIdle
  /\ send = SendIdle
  /\ normalizer = NormIdle
  /\ preflight = PreflightIdle
  /\ stream = StreamIdle
  /\ repairLoop = RepairIdle
  /\ reader = ReaderIdle
  /\ session = SessionStart

\* React renders App again: the next handleSend sees the chatState as set
SessionRender ==
  /\ session.pc = "ui"
  /\ session.renderLoading # session.isLoading
  /\ session' = [session EXCEPT !.renderLoading = session.isLoading]
  /\ UNCHANGED <<patch, parse, retry, scoring, send, normalizer, preflight, stream, repairLoop, reader, requests, preview>>

\* a caller (Enter in the textarea, the send button, the composer, the
\* manual recovery button) invokes the handleSend of the current render
SessionInvoke ==
  /\ session.pc = "ui"
  /\ session.invocations < MaxInvocations
  /\ LET r == session.invocations + 1
     IN  session' =
           IF guardPasses(session, session.renderLoading)
           THEN [session EXCEPT
                   !.invocations = r,
                   !.isLoading = TRUE,
                   !.runs[r] = [pc |-> "generating", attempt |-> 1,
                                closureLoading |-> session.renderLoading]]
           ELSE [session EXCEPT !.invocations = r]
  /\ UNCHANGED <<patch, parse, retry, scoring, send, normalizer, preflight, stream, repairLoop, reader, requests, preview>>

\* the stream callback of a run with live workspace apply
SessionStreamUpdate ==
  /\ session.pc = "ui"
  /\ \E r \in generating(session) :
       /\ Len(session.filesWrittenBy) < 2 * MaxInvocations
       /\ session' = writeFiles(session, r)
  /\ UNCHANGED <<patch, parse, retry, scoring, send, normalizer, preflight, stream, repairLoop, reader, requests, preview>>

\* the attempt of a run ends with return handleSend(...): the retry or the
\* repair is a call of the same closure
SessionRecurse ==
  /\ session.pc = "ui"
  /\ \E r \in generating(session) :
       /\ session.runs[r].attempt < MaxAttempts
       /\ session' =
            IF guardPasses(session, session.runs[r].closureLoading)
            THEN [session EXCEPT !.isLoading = TRUE, !.runs[r].attempt = @ + 1]
            ELSE [session EXCEPT !.runs[r].pc = "returned"]
  /\ UNCHANGED <<patch, parse, retry, scoring, send, normalizer, preflight, stream, repairLoop, reader, requests, preview>>

\* the run ends: files and isLoading: false in one setChatState
SessionFinish ==
  /\ session.pc = "ui"
  /\ \E r \in generating(session) :
       session' = [writeFiles(session, r) EXCEPT !.isLoading = FALSE, !.runs[r].pc = "done"]
  /\ UNCHANGED <<patch, parse, retry, scoring, send, normalizer, preflight, stream, repairLoop, reader, requests, preview>>

NextSession ==
  SessionRender \/ SessionInvoke \/ SessionStreamUpdate \/ SessionRecurse \/ SessionFinish

SpecSession == InitSession /\ [][NextSession]_vars

(***************************************************************************)
(* handleSend with its parameters applyToWorkspace and                     *)
(* liveApplyDuringStream, from the entry to the return of generateAppCode: *)
(* the stream callback, and the end of a call in ask mode.  A call that    *)
(* applies to the workspace goes on from there as SendJudge describes.     *)
(***************************************************************************)
AskModeWarning == "ASK_MODE: Output was not applied to files."

\* the application before a request made with these two arguments
AskReady(files, applyToWorkspace, liveApplyDuringStream) ==
  SendReady(files, "balanced", DEFAULT_AUTO_REPAIR_ATTEMPTS) @@
    [applyToWorkspace |-> applyToWorkspace, liveApplyDuringStream |-> liveApplyDuringStream,
     updates |-> 0]

\* a stream callback that applies whenever live apply is enabled
liveFilesUnguarded(call, updateFiles) ==
  IF call.liveApplyDuringStream THEN updateFiles ELSE call.files

\* files: applyToWorkspace && liveApplyDuringStream
\*          ? (areProjectFilesEqual(prev.files, update.files) ? prev.files : update.files)
\*          : prev.files
liveFiles(call, updateFiles) ==
  IF call.applyToWorkspace /\ call.liveApplyDuringStream THEN updateFiles ELSE call.files

\* the end of a call in ask mode
askModeEnd(call, result) ==
  [call EXCEPT !.pc = "done",
               !.files = call.sourceFiles,
               !.isLoading = FALSE,
               !.runPhase = "finalize",
               !.last = [kind |-> "advisory", result |-> result],
               !.lastSummary = Summary(<<AskModeWarning>>)]

InitAsk ==
  /\ preview = PreviewIdle
  /\ requests = RequestsIdle
  /\ patch = PatchIdle
  /\ parse = ParseIdle
  /\ retry = RetryIdle
  /\ scoring = ScoreIdle
  /\ normalizer = NormIdle
  /\ preflight = PreflightIdle
  /\ stream = StreamIdle
  /\ repairLoop = RepairIdle
  /\ reader = ReaderIdle
  /\ session = SessionIdle
  /\ send \in {AskReady(files, a, l) : files \in WorkspacePool, a \in BOOLEAN, l \in BOOLEAN}

\* the stream callback on an update that is not final
AskStreamUpdate ==
  /\ send.pc = "generating"
  /\ send.updates < MaxDeltas
  /\ \E result \in ResultPool(send.sourceFiles) :
       send' = [send EXCEPT
                  !.files = liveFiles(send, result.files),
                  !.updates = @ + 1,
                  !.runPhase = IF result.markerCount > 0 \/ result.appliedOps > 0
                                     \/ result.touchedFilesCount > 0
                                 THEN "patch" ELSE "plan"]
  /\ UNCHANGED <<patch, parse, retry, scoring, normalizer, preflight, stream, repairLoop, reader, session, requests, preview>>

\* generateAppCode returns after its final update: the callback runs on it,
\* and in ask mode the call ends
AskReturn ==
  /\ send.pc = "generating"
  /\ \E result \in ResultPool(send.sourceFiles) :
       Bind([send EXCEPT !.files = liveFiles(send, result.files)], LAMBDA call :
         send' = IF ~call.applyToWorkspace THEN askModeEnd(call, result)
                 ELSE [call EXCEPT !.pc = "returned",
                                   !.last = [kind |-> "returned", result |-> result]])
  /\ UNCHANGED <<patch, parse, retry, scoring, normalizer, preflight, stream, repairLoop, reader, session, requests, preview>>

NextAsk == SendPrimary \/ AskStreamUpdate \/ AskReturn \/ SendCatch

SpecAsk == InitAsk /\ [][NextAsk]_vars

(***************************************************************************)
(* handleSend on a workspace that holds a binary asset or a vendor path    *)
(***************************************************************************)
\* the workspaces with one entry that generateAppCode keeps out of the
\* protocol: an asset by its file name, an encoded asset under another
\* name, a vendored module
AssetWorkspacePool ==
  { StarterProject @@ ("assets/logo.png" :> EncodedAsset),
    StarterProject @@ ("public/hero" :> EncodedAsset),
    StarterProject @@ ("assets/vendor/three.module.js" :> <<"export", "THREE">>) }

InitAssets ==
  /\ preview = PreviewIdle
  /\ requests = RequestsIdle
  /\ patch = PatchIdle
  /\ parse = ParseIdle
  /\ retry = RetryIdle
  /\ scoring = ScoreIdle
  /\ normalizer = NormIdle
  /\ preflight = PreflightIdle
  /\ stream = StreamIdle
  /\ repairLoop = RepairIdle
  /\ reader = ReaderIdle
  /\ session = SessionIdle
  /\ send \in {SendReady(files, q, n) :
                 files \in AssetWorkspacePool, q \in QualityModes, n \in AutoRepairPool}

SpecAssets == InitAssets /\ [][NextSend]_vars

(***************************************************************************)
(* The model requests of one user request: handleSend calls                *)
(* generateAppCode once per attempt, and generateAppCode sends one request *)
(* per call of itself.  What the model answers and how the attempt is      *)
(* judged is left open; the decisions are the ones of the code.            *)
(***************************************************************************)
\* the raw texts that decide the end of a stream: special tokens only, a
\* tool wrapper, parseable content, prose
RawLogPool == {<<"<|im_end|>">>, <<"<tool_call>", "x">>, <<"<replace>", "x">>, <<"x">>}

\* what the retry probe found
ProbePool ==
  {[touchedFiles |-> t, appliedOpsTotal |-> a] : t \in {{}, {"App.tsx"}}, a \in {0, 1}}

\* a user request about to send its first model request
RequestsStart(qualityMode, autoRepairAttempts) ==
  [pc |-> "fetch", qualityMode |-> qualityMode, autoRepairAttempts |-> autoRepairAttempts,
   isRepairCall |-> FALSE, attemptIndex |-> 1, repairAttempt |-> 0,
   lastRepairSignature |-> [signature |-> NoSignature, count |-> 0],
   retryAttempt |-> 0, attempts |-> 1, callRequests |-> 0, modelRequests |-> 0]

\* handleSend calls generateAppCode for a further attempt
nextAttempt(R, isRepairCall, repairAttempt, attemptIndex) ==
  [R EXCEPT !.pc = "fetch", !.isRepairCall = isRepairCall,
            !.repairAttempt = repairAttempt, !.attemptIndex = attemptIndex,
            !.retryAttempt = 0, !.attempts = @ + 1, !.callRequests = 0]

InitRequests ==
  /\ preview = PreviewIdle
  /\ patch = PatchIdle
  /\ parse = ParseIdle
  /\ retry = RetryIdle
  /\ scoring = ScoreIdle
  /\ send = SendIdle
  /\ normalizer = NormIdle
  /\ preflight = PreflightIdle
  /\ stream = StreamIdle
  /\ repairLoop = RepairIdle
  /\ reader = ReaderIdle
  /\ session = SessionIdle
  /\ requests \in {RequestsStart(q, n) : q \in QualityModes, n \in AutoRepairPool}

\* generateAppCode: await fetch(config.apiUrl, ...)
RequestsFetch ==
  /\ requests.pc = "fetch"
  /\ requests' = [requests EXCEPT !.pc = "streamed", !.callRequests = @ + 1,
                                  !.modelRequests = @ + 1]
  /\ UNCHANGED <<patch, parse, retry, scoring, send, normalizer, preflight, stream, repairLoop, reader, session, preview>>

\* generateAppCode at the end of the stream: it calls itself with
\* retryAttempt + 1, or it returns the final update
RequestsStreamEnd ==
  /\ requests.pc = "streamed"
  /\ \E rawModelLog \in RawLogPool, sawMarkers \in BOOLEAN, retryProbe \in ProbePool :
       Bind([retryAttempt |-> requests.retryAttempt, rawModelLog |-> rawModelLog,
             sawMarkers |-> sawMarkers], LAMBDA S :
       Bind(streamEnd(S), LAMBDA awaiting :
         requests' =
           IF awaiting = "retryUpdate" \/ (awaiting = "probe" /\ probeAsksRetry(S, retryProbe))
           THEN [requests EXCEPT !.pc = "fetch", !.retryAttempt = @ + 1]
           ELSE [requests EXCEPT !.pc = "returned"]))
  /\ UNCHANGED <<patch, parse, retry, scoring, send, normalizer, preflight, stream, repairLoop, reader, session, preview>>

\* handleSend judges the attempt: the second attempt, a repair attempt, or
\* the end of the request
RequestsJudge ==
  /\ requests.pc = "returned"
  /\ \E hasHardIssues \in BOOLEAN, hasRuntimeIssues \in BOOLEAN, hasUsableEdits \in BOOLEAN, signature \in SignaturePool :
       Bind(shouldTriggerSecondAttempt(
              RetryDecisionInput(requests.qualityMode, requests.isRepairCall,
                                 requests.attemptIndex, hasHardIssues, hasRuntimeIssues,
                                 FALSE, FALSE)), LAMBDA retryDecision :
       Bind(repairDecision(requests, [hasHardIssues |-> hasHardIssues,
                                      hasUsableEdits |-> hasUsableEdits,
                                      signature |-> signature]), LAMBDA decision :
         requests' =
           IF retryDecision.shouldRetry
             THEN nextAttempt(requests, FALSE, requests.repairAttempt,
                              requests.attemptIndex + 1)
           ELSE IF decision.shouldAutoRepair
             THEN nextAttempt([requests EXCEPT !.lastRepairSignature = decision.ref],
                              TRUE, requests.repairAttempt + 1, requests.attemptIndex)
           ELSE [requests EXCEPT !.pc = "done", !.lastRepairSignature = decision.ref]))
  /\ UNCHANGED <<patch, parse, retry, scoring, send, normalizer, preflight, stream, repairLoop, reader, session, preview>>

\* fetch or the stream throws: the catch of handleSend ends the request
RequestsThrow ==
  /\ requests.pc = "streamed"
  /\ requests' = [requests EXCEPT !.pc = "done"]
  /\ UNCHANGED <<patch, parse, retry, scoring, send, normalizer, preflight, stream, repairLoop, reader, session, preview>>

NextRequests == RequestsFetch \/ RequestsStreamEnd \/ RequestsJudge \/ RequestsThrow

SpecRequests == InitRequests /\ [][NextRequests]_vars

(***************************************************************************)
(* generateAppCode at the end of a stream that carried no marker: the      *)
(* retry probe and the final pass over the same text.                      *)
(***************************************************************************)
\* Complete outputs without markers: an inline replace whose anchor is in
\* App.tsx alone, a fenced block under a file name, a raw App.tsx, prose
MarkerlessTexts ==
  { Ser("replace", <<"x">>, <<"z">>),
    <<"App.tsx", NL, Fence, NL, "z", NL, Fence>>,
    <<"y", NL, RawApp>>,
    <<"y">> }

InitMarkerless ==
  /\ preview = PreviewIdle
  /\ patch = PatchIdle
  /\ parse = ParseIdle
  /\ retry = RetryIdle
  /\ scoring = ScoreIdle
  /\ send = SendIdle
  /\ normalizer = NormIdle
  /\ preflight = PreflightIdle
  /\ repairLoop = RepairIdle
  /\ reader = ReaderIdle
  /\ session = SessionIdle
  /\ requests = RequestsIdle
  /\ stream \in {StreamStart(StreamFiles, deltas, streamApplyEnabled, 0) :
                   deltas \in UNION {Splits(text) : text \in MarkerlessTexts},
                   streamApplyEnabled \in BOOLEAN}

SpecMarkerless == InitMarkerless /\ [][NextStream]_vars

(***************************************************************************)
(* PreviewFrame: the bundles of the preview.  A bundle is named by the id  *)
(* of the run that built it; its htmlUrl is unique to it.  NoBundle is the *)
(* null of the refs and of the two iframe urls.                            *)
(***************************************************************************)
MaxRuns == 2

NoBundle == 0

NoMessage == [type |-> "none"]

\* The errors a run records: a fatal one (/mount failure|runtime fault|
\* initialization crashed|babel error/i), another console.error, and the
\* messages of updatePreview
MountFailure == "Mount Failure: x"

ConsoleError == "Warning: x"

PreflightFailed == "Missing preview entry file."

ThreeExamplesUnsupported == "Preview limitation: three/examples/jsm/* is not supported."

ThreeVendorMissing == "Missing local three.js vendor mapping."

isFatalError(content) == content = MountFailure

\* onPreviewStatus
PreviewStatus(candidateOk, usedLastGood, stage) ==
  [candidateOk |-> candidateOk, usedLastGood |-> usedLastGood, stage |-> stage]

\* PreviewFrame after mount, with the vendors loaded
PreviewStart(lastGoodFallbackEnabled) ==
  [pc |-> "mounted", lastGoodFallbackEnabled |-> lastGoodFallbackEnabled,
   currentRunId |-> 0, currentRunErrors |-> {},
   activeBundle |-> NoBundle, stagedBundle |-> NoBundle, lastGoodBundle |-> NoBundle,
   pendingPreviousBundle |-> NoBundle, previewUrl |-> NoBundle,
   pendingPreviewUrl |-> NoBundle, cleanupQueue |-> {}, revoked |-> {},
   rebuildTimer |-> [set |-> FALSE], status |-> PreviewStatus(FALSE, FALSE, "none"),
   handled |-> NoMessage]

enqueueBundleForCleanup(P, bundle) ==
  IF bundle = NoBundle \/ bundle \in P.cleanupQueue THEN P
  ELSE [P EXCEPT !.cleanupQueue = @ \cup {bundle}]

\* flushStaleBundles(false): the queued bundles that no ref keeps and whose
\* grace has expired are revoked
flushStaleBundles(P, expired) ==
  Bind({P.activeBundle, P.stagedBundle, P.lastGoodBundle, P.pendingPreviousBundle},
       LAMBDA keep :
  Bind((P.cleanupQueue \cap expired) \ keep, LAMBDA gone :
    [P EXCEPT !.cleanupQueue = @ \ gone, !.revoked = @ \cup gone]))

\* The staged bundle of the run of a message, if it is still staged
stagedBundleOf(P, runId) ==
  IF P.stagedBundle # NoBundle /\ P.stagedBundle = runId THEN P.stagedBundle ELSE NoBundle

\* The staged bundle of the run is given up
discardStaged(P, runId) ==
  IF stagedBundleOf(P, runId) # NoBundle
    THEN [enqueueBundleForCleanup(P, P.stagedBundle)
            EXCEPT !.stagedBundle = NoBundle, !.pendingPreviewUrl = NoBundle]
    ELSE P

\* lastGoodBundleRef.current || activeBundleRef.current
fallbackBundleOf(P) ==
  IF P.lastGoodBundle # NoBundle THEN P.lastGoodBundle ELSE P.activeBundle

\* The fallback of the message handler and of the missing three.js vendor:
\* the fallback bundle becomes the active and displayed one
fallBack(P, enabled, stage, expired) ==
  Bind(fallbackBundleOf(P), LAMBDA fallbackBundle :
    IF enabled /\ fallbackBundle # NoBundle
      THEN Bind(IF P.activeBundle # NoBundle /\ P.activeBundle # fallbackBundle
                  THEN enqueueBundleForCleanup(P, P.activeBundle) ELSE P, LAMBDA P1 :
           Bind(IF P1.pendingPreviousBundle # NoBundle
                   /\ P1.pendingPreviousBundle # fallbackBundle
                  THEN enqueueBundleForCleanup(P1, P1.pendingPreviousBundle) ELSE P1,
                LAMBDA P2 :
             flushStaleBundles(
               [P2 EXCEPT !.activeBundle = fallbackBundle, !.previewUrl = fallbackBundle,
                          !.pendingPreviousBundle = NoBundle,
                          !.status = PreviewStatus(FALSE, TRUE, stage)], expired)))
      ELSE [P EXCEPT !.pendingPreviousBundle =
                       IF stage = "compile" THEN @ ELSE NoBundle,
                     !.status = PreviewStatus(FALSE, FALSE, stage)])

\* A report that ignores the errors recorded for the run
reportPassesUnrecorded(P, report) == report.ok

\* report?.ok && currentRunErrorsRef.current.length === 0
reportPasses(P, report) == report.ok /\ P.currentRunErrors = {}

\* The staged bundle of the run is promoted: it becomes the active, the
\* displayed and the last-good bundle
promote(P, runId, expired) ==
  Bind(stagedBundleOf(P, runId), LAMBDA stagedBundle :
  Bind(P.activeBundle, LAMBDA previousActive :
  Bind(IF stagedBundle # NoBundle
         THEN Bind([P EXCEPT !.activeBundle = stagedBundle, !.lastGoodBundle = stagedBundle,
                             !.previewUrl = stagedBundle, !.pendingPreviewUrl = NoBundle,
                             !.stagedBundle = NoBundle], LAMBDA Q :
                IF previousActive # NoBundle /\ previousActive # stagedBundle
                  THEN enqueueBundleForCleanup(Q, previousActive) ELSE Q)
       ELSE IF P.activeBundle # NoBundle
         THEN [P EXCEPT !.lastGoodBundle = P.activeBundle]
       ELSE P, LAMBDA P1 :
  Bind(IF P1.pendingPreviousBundle # NoBundle
          /\ (P1.activeBundle = NoBundle \/ P1.pendingPreviousBundle # P1.activeBundle)
         THEN enqueueBundleForCleanup(P1, P1.pendingPreviousBundle) ELSE P1, LAMBDA P2 :
    flushStaleBundles([P2 EXCEPT !.pendingPreviousBundle = NoBundle,
                                 !.status = PreviewStatus(TRUE, FALSE, "smoke")],
                      expired)))))

\* The message handler for a test-report
handleTestReport(P, message, expired) ==
  IF message.runId = P.currentRunId
    THEN IF reportPasses(P, message)
           THEN promote(P, message.runId, expired)
           ELSE fallBack(discardStaged(P, message.runId), P.lastGoodFallbackEnabled,
                         "smoke", expired)
    ELSE P

\* The message handler for a console message of the preview
handleConsole(P, message, expired) ==
  IF message.type = "error" /\ message.runId = P.currentRunId
    THEN Bind([P EXCEPT !.currentRunErrors = @ \cup {message.content}], LAMBDA P1 :
           IF isFatalError(message.content)
             THEN fallBack(discardStaged(P1, message.runId), P.lastGoodFallbackEnabled,
                           "mount", expired)
             ELSE P1)
    ELSE P

\* The messages the preview harness of a run posts: a test report, passed
\* or not, console errors, a console log
MessagesOf(runId) ==
  {[type |-> "test-report", runId |-> runId, ok |-> ok, content |-> ""] : ok \in BOOLEAN}
  \cup {[type |-> "error", runId |-> runId, ok |-> FALSE, content |-> c] :
          c \in {MountFailure, ConsoleError}}
  \cup {[type |-> "log", runId |-> runId, ok |-> FALSE, content |-> "x"]}

\* updatePreview gives up before a run begins: the preflight fails, or the
\* project imports three/examples/jsm
buildRejected(P, enabled, content, stage) ==
  Bind([P EXCEPT !.currentRunErrors = @ \cup {content}], LAMBDA P1 :
  Bind(fallbackBundleOf(P1), LAMBDA fallbackBundle :
    IF enabled /\ fallbackBundle # NoBundle
      THEN [P1 EXCEPT !.activeBundle = fallbackBundle, !.previewUrl = fallbackBundle,
                      !.pendingPreviewUrl = NoBundle,
                      !.status = PreviewStatus(FALSE, TRUE, stage)]
      ELSE [P1 EXCEPT !.status = PreviewStatus(FALSE, FALSE, stage)]))

\* updatePreview builds a candidate: a new run begins, and the candidate is
\* staged in the hidden iframe
buildStaged(P) ==
  Bind(P.currentRunId + 1, LAMBDA runId :
  Bind(enqueueBundleForCleanup(P, P.stagedBundle), LAMBDA P1 :
    [P1 EXCEPT !.currentRunId = runId, !.currentRunErrors = {},
               !.pendingPreviousBundle = P.activeBundle, !.stagedBundle = runId,
               !.pendingPreviewUrl = runId,
               !.status = PreviewStatus(FALSE, FALSE, "preflight")]))

BuildOutcomes == {"preflight", "three-examples", "three-missing", "staged"}

updatePreview(P, enabled, outcome, expired) ==
  CASE outcome = "preflight" -> buildRejected(P, enabled, PreflightFailed, "preflight")
    [] outcome = "three-examples" ->
         buildRejected(P, enabled, ThreeExamplesUnsupported, "compile")
    [] outcome = "three-missing" ->
         fallBack([P EXCEPT !.currentRunErrors = @ \cup {ThreeVendorMissing}],
                  enabled, "compile", expired)
    [] outcome = "staged" -> buildStaged(P)

InitPreview ==
  /\ patch = PatchIdle
  /\ parse = ParseIdle
  /\ retry = RetryIdle
  /\ scoring = ScoreIdle
  /\ send = SendIdle
  /\ normalizer = NormIdle
  /\ preflight = PreflightIdle
  /\ stream = StreamIdle
  /\ repairLoop = RepairIdle
  /\ reader = ReaderIdle
  /\ session = SessionIdle
  /\ requests = RequestsIdle
  /\ preview \in {PreviewStart(enabled) : enabled \in BOOLEAN}

\* The files change: the effect sets the rebuild timer, whose callback
\* holds lastGoodFallbackEnabled of this render
PreviewSchedule ==
  /\ preview.pc = "mounted"
  /\ preview' = [preview EXCEPT
                   !.rebuildTimer = [set |-> TRUE,
                                     lastGoodFallbackEnabled |->
                                       preview.lastGoodFallbackEnabled],
                   !.handled = NoMessage]
  /\ UNCHANGED <<patch, parse, retry, scoring, send, normalizer, preflight, stream, repairLoop, reader, session, requests>>

\* The rebuild timer fires: updatePreview
PreviewBuild ==
  /\ preview.pc = "mounted"
  /\ preview.rebuildTimer.set
  /\ \E outcome \in BuildOutcomes, expired \in {{}, preview.cleanupQueue} :
       /\ outcome = "staged" => preview.currentRunId < MaxRuns
       /\ preview' = [updatePreview(preview, preview.rebuildTimer.lastGoodFallbackEnabled,
                                    outcome, expired)
                        EXCEPT !.rebuildTimer = [set |-> FALSE],
                               !.handled = [type |-> "build", outcome |-> outcome]]
  /\ UNCHANGED <<patch, parse, retry, scoring, send, normalizer, preflight, stream, repairLoop, reader, session, requests>>

\* A message of the harness of a bundle built so far arrives
PreviewMessage ==
  /\ preview.pc = "mounted"
  /\ \E runId \in 1..preview.currentRunId, expired \in {{}, preview.cleanupQueue} :
       \E message \in MessagesOf(runId) :
         preview' = [(IF message.type = "test-report"
                        THEN handleTestReport(preview, message, expired)
                        ELSE handleConsole(preview, message, expired))
                       EXCEPT !.handled = message]
  /\ UNCHANGED <<patch, parse, retry, scoring, send, normalizer, preflight, stream, repairLoop, reader, session, requests>>

\* The operator switches the last-good fallback on or off
PreviewToggleFallback ==
  /\ preview.pc = "mounted"
  /\ preview' = [preview EXCEPT !.lastGoodFallbackEnabled = ~@, !.handled = NoMessage]
  /\ UNCHANGED <<patch, parse, retry, scoring, send, normalizer, preflight, stream, repairLoop, reader, session, requests>>

\* The visible iframe has loaded: flushStaleBundles(false)
PreviewFrameLoad ==
  /\ preview.pc = "mounted"
  /\ preview.previewUrl # NoBundle
  /\ \E expired \in {{}, preview.cleanupQueue} :
       preview' = [flushStaleBundles(preview, expired) EXCEPT !.handled = NoMessage]
  /\ UNCHANGED <<patch, parse, retry, scoring, send, normalizer, preflight, stream, repairLoop, reader, session, requests>>

NextPreview ==
  PreviewSchedule \/ PreviewBuild \/ PreviewMessage \/ PreviewToggleFallback \/ PreviewFrameLoad

SpecPreview == InitPreview /\ [][NextPreview]_vars

(***************************************************************************)
(* Properties of the patch engine                                          *)
(***************************************************************************)
\* The occurrences of a finder at the tier that decides: the exact tier when
\* it counts one, else the line tier when it has a hit, else the comment tier
AnchorSpans(src, find) ==
  LET sourceLines == Split(src, NL)
      findLines == findLinesOf(find)
      n == Len(findLines)
      lineHits == LineHits(sourceLines, findLines, norm)
      commentHits == LineHits(sourceLines, findLines, stripTrailingComment)
      span(i) == [start |-> LineHit(sourceLines, n, i).start,
                  matched |-> LineHit(sourceLines, n, i).matched]
  IN  IF countOccurrences(src, find) = 1
        THEN {[start |-> IndexOf(src, find), matched |-> find]}
      ELSE IF n = 0 THEN {}
      ELSE IF lineHits # {} THEN {span(i) : i \in lineHits}
      ELSE {span(i) : i \in commentHits}

AnchorTier(src, find) ==
  LET sourceLines == Split(src, NL)
      findLines == findLinesOf(find)
  IN  IF countOccurrences(src, find) = 1 THEN "exact"
      ELSE IF Len(findLines) = 0 THEN "none"
      ELSE IF LineHits(sourceLines, findLines, norm) # {} THEN "line"
      ELSE IF LineHits(sourceLines, findLines, stripTrailingComment) # {} THEN "comment"
      ELSE "none"

\* C1: an operation of the loop changes the running content only when the
\* tier that decides has exactly one occurrence of its finder, and then the
\* change is the splice at that occurrence; with no occurrence or several the
\* content stays as it was (strict and best-effort mode alike).
C1_AnchorUniqueness ==
  [][(patch.pc = "loop" /\ patch'.pc = "loop" /\ patch'.idx = patch.idx + 1) =>
       LET op == patch.dedupedOps[patch.idx + 1]
           src == patch.st.newContent
           spans == AnchorSpans(src, op.find)
       IN  IF Cardinality(spans) = 1
             THEN patch'.st.newContent =
                    spliceOp(op.type, src, CHOOSE h \in spans : TRUE, op.with)
             ELSE patch'.st.newContent = src]_vars

\* C1 witness: in best-effort mode one operation was skipped for an ambiguous
\* anchor and another one was applied
C1_Witness ==
  /\ patch.pc = "loop"
  /\ patch.bestEffort
  /\ patch.idx = 2
  /\ patch.st.appliedOps = 1
  /\ patch.st.failReason = ReasonAmbiguous

\* C2: a finder that occurs more than once as an exact substring of the
\* source is reported ambiguous (count > 1); no hit of a looser tier is used.
C2_ExactAmbiguityStops ==
  (patch.pc = "loop" /\ patch.idx < Len(patch.dedupedOps)) =>
    LET src == patch.st.newContent
        find == patch.dedupedOps[patch.idx + 1].find
    IN  countOccurrences(src, find) > 1 => locateAnchor(src, find).count > 1

\* C3: in strict mode a batch whose loop was left on a missing or ambiguous
\* anchor returns success = FALSE, the newline-normalised original content
\* and the reason of that anchor.
C3_StrictAbort ==
  (patch.pc = "done" /\ ~patch.bestEffort /\ patch.st.broke) =>
    LET failed == patch.dedupedOps[patch.idx]
        spans == AnchorSpans(patch.st.newContent, failed.find)
    IN  /\ patch.result.success = FALSE
        /\ patch.result.content = normalizeText(patch.content)
        /\ patch.result.reason # ""
        /\ patch.result.reason =
             IF Cardinality(spans) > 1 THEN ReasonAmbiguous ELSE ReasonNotFound

\* C3 witness: a strict batch failed behind an applied operation, on a
\* content that had a carriage return to normalise
C3_Witness ==
  /\ patch.pc = "done"
  /\ ~patch.bestEffort
  /\ patch.st.broke
  /\ patch.st.appliedOps >= 1
  /\ patch.st.newContent # patch.originalContent
  /\ patch.content # patch.originalContent
  /\ patch.result.content = patch.originalContent

\* The finder is the lines of one window of the source with the trailing
\* line comment left out (at least one line of the window carries one)
CommentLess(line) ==
  LET at == IndexOf(line, <<CommentOpen>>)
  IN  IF at = -1 THEN line ELSE TrimEnd(Slice(line, 0, at))

IsCommentDrift(src, find) ==
  LET sourceLines == Split(src, NL)
      findLines == findLinesOf(find)
      n == Len(findLines)
      windows == {i \in 0..(Len(sourceLines) - n) :
                    /\ \A j \in 1..n : CommentLess(sourceLines[i + j]) = findLines[j]
                    /\ \E j \in 1..n : sourceLines[i + j] # findLines[j]}
  IN  n > 0 /\ Cardinality(windows) = 1

CommentCount(s) == countOccurrences(s, <<CommentOpen>>)

\* C8: a replace whose finder leaves out the trailing comment of the source
\* lines, matched at the comment-insensitive tier and at no earlier one,
\* leaves the comment of the source line in the output.
C8_CommentDrift ==
  (/\ patch.pc = "loop"
   /\ patch.idx = 1
   /\ patch.dedupedOps[1].type = "replace"
   /\ IsCommentDrift(patch.originalContent, patch.dedupedOps[1].find)
   /\ AnchorTier(patch.originalContent, patch.dedupedOps[1].find) = "comment") =>
    CommentCount(patch.st.newContent) >= CommentCount(patch.originalContent)

(***************************************************************************)
(* Properties of parseResponse                                             *)
(***************************************************************************)
ParsedFinal == parse.pc = "done" /\ parse.isFinal /\ parse.applyToFiles

InlineNoOp == "NO_OP: inline patch detected but no anchor matched"

AmbiguousTarget == "PROTOCOL_VIOLATION: Inline patch target ambiguous"

HasFailure(P, tags) == \E i \in 1..Len(P.failedPatches) : P.failedPatches[i].tag \in tags

\* The find text, less the white space around it, occurs n times in the content
Occurs(content, find, n) == countOccurrences(content, Trim(find)) = n

\* A response without markers that holds nothing but replace operations
IsInlineOnly(P) ==
  /\ Len(P.markers) = 0
  /\ P.contentStream \in {Stray(op, n) : op \in InlineOpPool, n \in 1..MaxReps}

\* C4: the final parse of a markerless response whose replace operations
\* name a find text that occurs in no project file applies nothing:
\* appliedOps is 0, every file is as in the base set and failedPatches
\* records the anchor miss.
C4_TrueAnchorMiss ==
  (/\ ParsedFinal
   /\ IsInlineOnly(parse)
   /\ LET ops == extractInlineReplaceOps(parse.textClean)
      IN  /\ Len(ops) > 0
          /\ \A i \in 1..Len(ops) : \A f \in DOMAIN parse.baseFiles :
               Occurs(parse.baseFiles[f], ops[i].find, 0)) =>
    /\ parse.appliedOpsTotal = 0
    /\ parse.newFiles = parse.baseFiles
    /\ HasFailure(parse, {InlineNoOp})

\* The turn of the marker loop for markers[i] runs the patch engine and the
\* engine fails on a missing or ambiguous anchor
BlockFails(P, i) ==
  LET b == blockOf(P, i)
      result == applyPatches(FilesGet(P.newFiles, b.fileKey), b.cleanBlockContent,
                             P.isFinal, FALSE)
  IN  /\ b.hasPatchTags
      /\ b.kind = "patch" =>
           [file |-> b.fileKey, body |-> Trim(b.cleanBlockContent)] \notin P.seenPatchBlocks
      /\ ~result.success
      /\ result.reason \in {ReasonNotFound, ReasonAmbiguous}

\* C5: on the final parse, a turn of the marker loop whose patch fails on a
\* missing or ambiguous anchor leaves the content of the target file as it
\* was and adds the failure entry of that file to failedPatches.
C5_PatchFailureNotGuessed ==
  [][(/\ parse.pc = "blocks"
      /\ parse'.pc = "blocks"
      /\ parse'.idx = parse.idx + 1
      /\ parse.isFinal
      /\ blockOf(parse, parse.idx + 1).fileKey \in DOMAIN parse.newFiles
      /\ BlockFails(parse, parse.idx + 1)) =>
       LET b == blockOf(parse, parse.idx + 1)
           result == applyPatches(FilesGet(parse.newFiles, b.fileKey), b.cleanBlockContent,
                                  TRUE, FALSE)
       IN  /\ parse'.newFiles = parse.newFiles
           /\ parse'.failedPatches =
                Append(parse.failedPatches, Note(result.reason, <<b.fileKey>>))]_vars

\* The response is n copies of one operation: under a marker, or without a
\* marker behind a stray tool tag; the target is the marked file, or the one
\* file that holds the find text
IsRepeatedOp(P, op, target) ==
  \/ /\ \E m \in Markers, n \in 1..MaxReps :
          /\ P.contentStream = <<m.lex, NL>> \o Reps(op, n)
          /\ target = resolveFileKey(m.file, P.baseFiles)
     /\ target \in DOMAIN P.baseFiles
  \/ /\ \E n \in 1..MaxReps : P.contentStream = Stray(op, n)
     /\ target \in DOMAIN P.baseFiles
     /\ \A f \in DOMAIN P.baseFiles \ {target} :
          Occurs(P.baseFiles[f], Ser2Find(op), 0)

\* C6: n copies of one operation whose find text occurs exactly once in
\* the target file (and is located there as it is written) are applied as one
\* operation: appliedOps is 1, the target and no other file is updated, and
\* no ambiguity and no anchor miss is reported.
C6_Deduplication ==
  ParsedFinal =>
    \A op \in InlineOpPool, target \in FileNames :
      (/\ IsRepeatedOp(parse, op, target)
       /\ Occurs(parse.baseFiles[target], Ser2Find(op), 1)
       /\ locateAnchor(parse.baseFiles[target], Ser2Find(op)).count = 1) =>
        /\ parse.appliedOpsTotal = 1
        /\ parse.touchedFiles = {target}
        /\ parse.newFiles[target] # parse.baseFiles[target]
        /\ ~HasFailure(parse, {ReasonAmbiguous, ReasonNotFound, AmbiguousTarget,
                               InlineNoOp, MarkerNoOp})

\* The candidates of an inline rescue over the files and those of the top score
RescueTop(P) ==
  LET ops == dedupeInlineOps(extractInlineReplaceOps(P.textClean))
      body == IF Len(ops) > 0 THEN buildPatchBodyFromInlineOps(ops) ELSE P.textClean
  IN  IF Len(ops) = 0 /\ Len(P.markers) > 0 THEN {}
      ELSE topCandidates(inlineCandidates(P.newFiles, body, TRUE))

RescueApplied ==
  {"AUTO_APPLY: Markerless inline patch applied.",
   "AUTO_RECOVER: Applied inline rescue patch after marker parse miss."}

HasWarning(P, tags) == \E i \in 1..Len(P.warnings) : P.warnings[i].tag \in tags

\* C7 as stated: when the candidates of an inline rescue tie for the top
\* score, the parse reports the ambiguous target and the returned file set
\* equals the base file set.
C7_TieReturnsBase ==
  (/\ ParsedFinal
   /\ parse.inlinePatchAttempted
   /\ ~parse.inlinePatchApplied
   /\ Cardinality(RescueTop(parse)) > 1) =>
    /\ HasFailure(parse, {AmbiguousTarget})
    /\ parse.newFiles = parse.baseFiles

\* C7, amended: an inline rescue (of a markerless response, or behind the
\* marker loop) whose candidates tie for the top score reports the ambiguous
\* target and changes no file, so that the files are those of the base set
\* when the response has no markers; the rescue patch is applied only when
\* one file holds the top score alone, and then to that file only.
C7_AmbiguousRescue ==
  [][(/\ parse.pc \in {"markerless", "blocks"}
      /\ parse'.pc = "finish"
      /\ parse'.inlinePatchAttempted) =>
       LET top == RescueTop(parse)
           chosen == CHOOSE c \in top : TRUE
       IN  /\ Cardinality(top) > 1 =>
                /\ HasFailure(parse', {AmbiguousTarget})
                /\ parse'.newFiles = parse.newFiles
                /\ parse'.appliedOpsTotal = parse.appliedOpsTotal
                /\ Len(parse.markers) = 0 => parse'.newFiles = parse.baseFiles
           /\ Cardinality(top) = 1 =>
                /\ parse'.newFiles = [parse.newFiles EXCEPT ![chosen.file] = chosen.result.content]
                /\ parse'.appliedOpsTotal = parse.appliedOpsTotal + chosen.result.appliedOps
                /\ ~HasFailure(parse', {AmbiguousTarget})
           /\ HasWarning(parse', RescueApplied) => Cardinality(top) = 1]_vars

\* C7 witness: a markerless final parse whose operation matched once in
\* App.tsx and once in index.tsx ended with the ambiguous-target failure
C7_Witness ==
  /\ ParsedFinal
  /\ Len(parse.markers) = 0
  /\ Cardinality(RescueTop(parse)) = 2
  /\ HasFailure(parse, {AmbiguousTarget})
  /\ parse.newFiles = parse.baseFiles

\* The response is a stray operation (n copies behind a tool tag), then the
\* same operation under a patch marker with its last closing tag truncated
IsMalformedTail(P, op, target) ==
  /\ \E n \in 1..MaxReps, k \in 1..MaxReps, e \in Endings \ {"complete"},
        m \in {x \in Markers : x.kind = "patch"} :
       /\ P.contentStream = Stray(op, n) \o <<m.lex, NL>> \o Truncated(Reps(op, k), e)
       /\ target = resolveFileKey(m.file, P.baseFiles)
  /\ target \in DOMAIN P.baseFiles

IsTruncated(sym) == sym \in DOMAIN BrokenClosings \cup {Dangling}

\* C9: a stray operation followed by the same operation under a patch marker
\* with a truncated closing tag, the find text once in the marked file: the
\* final parse repairs the text and applies the marked patch once, to the
\* marked file and to no other; the stray copy is not applied again.
C9_MalformedTail ==
  ParsedFinal =>
    \A op \in InlineOpPool, target \in FileNames :
      (/\ IsMalformedTail(parse, op, target)
       /\ Occurs(parse.baseFiles[target], Ser2Find(op), 1)
       /\ locateAnchor(parse.baseFiles[target], Ser2Find(op)).count = 1) =>
        /\ \A i \in 1..Len(parse.textClean) : ~IsTruncated(parse.textClean[i])
        /\ parse.appliedOpsTotal = 1
        /\ parse.touchedFiles = {target}
        /\ parse.newFiles =
             [parse.baseFiles EXCEPT
                ![target] = applyPatches(parse.baseFiles[target], op, TRUE, FALSE).content]
        /\ parse.newFiles[target] # parse.baseFiles[target]
        /\ parse.failedPatches = <<>>

\* C9 witness: the response ended in "</", the stray copy matched a second
\* file as well, and the marked file alone was changed, by one operation
C9_Witness ==
  /\ ParsedFinal
  /\ parse.contentStream[Len(parse.contentStream)] = Dangling
  /\ \E op \in InlineOpPool :
       /\ IsMalformedTail(parse, op, "index.tsx")
       /\ Occurs(parse.baseFiles["index.tsx"], Ser2Find(op), 1)
       /\ "App.tsx" \in DOMAIN parse.baseFiles
       /\ Occurs(parse.baseFiles["App.tsx"], Ser2Find(op), 1)
  /\ parse.appliedOpsTotal = 1
  /\ parse.touchedFiles = {"index.tsx"}

(***************************************************************************)
(* Properties of the run orchestrator                                      *)
(***************************************************************************)
RetrySignals(input) ==
  \/ input.hasHardIssues \/ input.hasRuntimeIssues
  \/ input.noEffectiveChanges \/ input.inlineNoOp

\* C10: the retry decision is "no" for every input in single-pass mode and
\* for every repair call or attempt index of 2 or more; "yes" for every
\* earlier non-repair attempt in always-best-of-2 mode; and in adaptive mode,
\* for an earlier non-repair attempt, "yes" exactly when one of hard issues,
\* runtime issues, no effective changes or inline no-op is reported.
C10_QualityModes ==
  retry.pc = "decided" =>
    LET input == retry.input
        shouldRetry == retry.decision.shouldRetry
        eligible == ~input.isRepairCall /\ input.attemptIndex < 2
    IN  /\ input.qualityMode = "single-pass" => ~shouldRetry
        /\ (input.qualityMode = "always-best-of-2" /\ eligible) => shouldRetry
        /\ (input.qualityMode = "adaptive-best-of-2" /\ eligible) =>
             (shouldRetry <=> RetrySignals(input))
        /\ (input.isRepairCall \/ input.attemptIndex >= 2) => ~shouldRetry

\* C10 witness: a first single-pass attempt with hard issues was decided
\* without a retry
C10_Witness ==
  /\ retry.pc = "decided"
  /\ retry.input.qualityMode = "single-pass"
  /\ retry.input.attemptIndex = 1
  /\ ~retry.input.isRepairCall
  /\ retry.input.hasHardIssues
  /\ ~retry.decision.shouldRetry
  /\ retry.decision.reason = "quality_mode_single_pass"



(***************************************************************************)
(* Properties of the run orchestrator: scoring                             *)
(***************************************************************************)
\* The two scored candidates agree in everything but the changed files
SameButChangedFiles ==
  /\ scoring.pc = "scored"
  /\ scoring.first.validationDelta = scoring.second.validationDelta
  /\ scoring.first.runtimeOk = scoring.second.runtimeOk
  /\ scoring.first.appliedOps = scoring.second.appliedOps
  /\ scoring.first.hardFailures = scoring.second.hardFailures

\* C19: of two candidates with the same validationDelta, runtimeOk,
\* appliedOps and hardFailures, one without changed files and one with
\* changed files, the one with changed files has the strictly higher score
C19_ChangedFilesScoreHigher ==
  (SameButChangedFiles /\ scoring.first.changedFiles = 0
     /\ scoring.second.changedFiles > 0)
    => scoring.second.score > scoring.first.score

C19_Witness ==
  /\ SameButChangedFiles
  /\ scoring.first.changedFiles = 0
  /\ scoring.second.changedFiles > 0
  /\ scoring.first.appliedOps > 6
  /\ scoring.first.validationDelta > 0
  /\ scoring.first.hardFailures > 0
  /\ ~scoring.first.runtimeOk
  /\ scoring.second.score = scoring.first.score + 360


(***************************************************************************)
(* Properties of parseResponse: the core scaffold                          *)
(***************************************************************************)
ScaffoldGuardWarning == "AUTO_GUARD: Restored core scaffold file(s)."

\* The end of a final parse that is applied to the files
FinalFinishStep ==
  /\ parse.pc = "finish"
  /\ parse'.pc = "done"
  /\ parse.isFinal
  /\ parse.applyToFiles

Issued(attemptType) ==
  Cardinality({i \in 1..Len(send.attempts) : send.attempts[i] = attemptType})

\* C11: handleSend issues at most one attempt of type retry for a request:
\* a retry is the second attempt, issued by the primary attempt; neither
\* the retry nor a repair attempt issues a retry, however many repairs run
C11_AtMostOneRetry ==
  /\ Issued("retry") <= 1
  /\ \A i \in 1..Len(send.attempts) :
       send.attempts[i] = "retry" => i = 2 /\ send.attempts[1] = "primary"
  /\ send.pc = "judged" /\ send.attemptType # "primary" => ~send.last.shouldRetry

\* A request that ran the retry and then every repair of the budget
C11_Witness ==
  /\ send.pc = "done"
  /\ send.attempts = <<"primary", "retry", "repair", "repair", "repair">>


\* The primary attempt of a request in adaptive mode has been judged
AdaptivePrimaryJudged ==
  /\ send.pc = "judged"
  /\ send.attemptType = "primary"
  /\ send.qualityMode = "adaptive-best-of-2"

\* C12: in adaptive mode, a request on a project that is not the starter
\* project whose first attempt ends with no changed file runs a second
\* attempt, whether or not the attempt has a hard or a runtime issue
C12_IterationNoDiffRetries ==
  (AdaptivePrimaryJudged /\ ~isInitialStarterProject(send.originalFiles)
     /\ send.last.changedFiles = 0)
    => send.last.shouldRetry


\* C13: in adaptive mode, a first attempt that changes files, has no failed
\* patch and no runtime error, and whose validation errors are all errors
\* of the files before the run, is healthy: no second attempt, no repair,
\* and no hard issue, so that the edit is accepted
C13_BaselineErrorsAreNotHard ==
  (AdaptivePrimaryJudged /\ send.last.changedFiles > 0 /\ send.last.failedPatches = 0
     /\ ~send.last.hasRuntimeIssues /\ ~send.last.selected.regression)
    => /\ ~send.last.shouldRetry
       /\ ~send.last.shouldAutoRepair
       /\ ~send.last.hasHardIssues


\* C14: a run that ends as failed leaves the workspace with the files it
\* had before the first attempt of the request; a run with issues keeps
\* the generated files, ending as finalize, only when the selected edit has
\* changed files and is valid or when the issues are runtime issues only
C14_FailedRestoresOriginal ==
  /\ send.pc = "done" /\ send.runPhase = "failed" => send.files = send.originalFiles
  /\ (send.pc = "done" /\ send.runPhase = "finalize" /\ send.last.kind = "judged"
        /\ (send.last.hasHardIssues \/ send.last.hasRuntimeIssues))
       => \/ send.last.hasUsableEdits
          \/ ~send.last.hasHardIssues /\ send.last.hasRuntimeIssues


\* A step of handleSend that issues a repair attempt
RepairIssued ==
  /\ Len(send'.attempts) = Len(send.attempts) + 1
  /\ send'.attemptType = "repair"

\* C15: the repair attempts issued for a request are at most
\* autoRepairAttempts; a repair attempt is issued only by an attempt judged
\* to have hard issues and no usable edit; the repair attempt that uses up
\* the budget ends the request without a further call of the model
C15_RepairWithinBudget ==
  /\ [](Issued("repair") <= send.autoRepairAttempts)
  /\ [][RepairIssued =>
          /\ send.pc = "judged"
          /\ send.last.hasHardIssues
          /\ ~send.last.hasUsableEdits
          /\ send.repairAttempt < send.autoRepairAttempts]_vars
  /\ [][(/\ send.pc = "judged"
         /\ send.isRepairCall
         /\ send.repairAttempt >= send.autoRepairAttempts)
          => send'.pc = "done" /\ send'.attempts = send.attempts]_vars

\* The last repair of the budget still has hard issues and no usable edit:
\* the request ends as failed
C15_Witness ==
  /\ send.pc = "done"
  /\ send.isRepairCall
  /\ send.autoRepairAttempts = DEFAULT_AUTO_REPAIR_ATTEMPTS
  /\ send.repairAttempt = send.autoRepairAttempts
  /\ send.last.kind = "judged"
  /\ send.last.hasHardIssues
  /\ ~send.last.hasUsableEdits
  /\ send.runPhase = "failed"


\* C16: a repair attempt that asks for a further repair with the failure
\* signature of the repair attempt before it ends the loop, whatever is
\* left of the budget; and the loop is ended for a repeated signature only
\* then, that is, not by the first repair attempt of a request
C16_EarlyStopOnlyForTwoRepairs ==
  /\ (/\ send.pc = "judged"
      /\ send.isRepairCall
      /\ send.repairAttempt >= 2
      /\ send.last.askedRepair
      /\ send.last.ref.signature = send.lastRepairSignature.signature)
       => send.last.repeatedRepairSignature /\ ~send.last.shouldAutoRepair
  /\ (send.pc = "judged" /\ send.last.repeatedRepairSignature)
       => send.isRepairCall /\ send.repairAttempt >= 2


\* handleSend has returned: the request is over
Terminal ==
  /\ send.pc = "done"
  /\ ~send.isLoading
  /\ send.runPhase \in {"finalize", "failed"}

\* C17: every request that has started ends, whether its calls of the
\* model return or throw: handleSend returns with isLoading = false and
\* runPhase finalize or failed, after at most the primary attempt, one
\* retry and autoRepairAttempts repair attempts
C17_RequestTerminates ==
  /\ [](Len(send.attempts) <= 2 + send.autoRepairAttempts)
  /\ [](send.pc = "done" => Terminal)
  /\ (send.pc # "ready") ~> Terminal

\* A request that ran every attempt it can run and whose last call of the
\* model has thrown
C17_Witness ==
  /\ Terminal
  /\ send.last.kind = "thrown"
  /\ Len(send.attempts) = 2 + DEFAULT_AUTO_REPAIR_ATTEMPTS
  /\ send.runPhase = "failed"


\* The candidates of the judged attempt, and those among them that changed
\* files without a new validation error
PoolCandidates == {send.last.pool[i] : i \in 1..Len(send.last.pool)}

ChangedNoRegression == {c \in PoolCandidates : c.changed /\ ~c.regression}

\* The candidates the preference leaves: those that changed files without
\* regression when there are any, else the whole pool
Preferred == IF ChangedNoRegression # {} THEN ChangedNoRegression ELSE PoolCandidates

\* The candidates the preview preflight leaves of the preferred ones: those
\* that pass it when there are any, else all of them
Remaining ==
  IF \E c \in Preferred : c.preflightOk
    THEN {c \in Preferred : c.preflightOk} ELSE Preferred

\* C18, as amended: if a candidate of the pool changed files without a new
\* validation error, the selected candidate is such a candidate; a
\* candidate that fails the preview preflight is selected only if every
\* preferred candidate fails it; and the selected candidate has the highest
\* score of the candidates that remain
C18_SelectionPrefers ==
  send.pc = "judged" =>
    /\ send.last.selected \in PoolCandidates
    /\ ChangedNoRegression # {} => send.last.selected \in ChangedNoRegression
    /\ ~send.last.selected.preflightOk => \A c \in Preferred : ~c.preflightOk
    /\ send.last.selected \in Remaining
    /\ \A c \in Remaining : send.last.selected.score >= c.score

\* C18, as stated: a candidate that fails the preview preflight is selected
\* only if every candidate of the pool fails it
C18_PreflightOnlyIfAllFail ==
  send.pc = "judged" =>
    /\ ChangedNoRegression # {} => send.last.selected \in ChangedNoRegression
    /\ ~send.last.selected.preflightOk => \A c \in PoolCandidates : ~c.preflightOk
    /\ \A c \in Remaining : send.last.selected.score >= c.score

\* A pool of three candidates of which one fails the preview preflight and
\* two remain with different scores: the one with the higher score, which
\* is not the first of the pool, is selected
C18_Witness ==
  /\ send.pc = "judged"
  /\ Len(send.last.pool) = 3
  /\ ChangedNoRegression # {}
  /\ \E c \in PoolCandidates : ~c.preflightOk
  /\ \E c \in Remaining : c.score < send.last.selected.score
  /\ send.last.selected.label # "final"

\* C23: on the final pass applyPatches does not report success for a batch
\* that leaves the content as it was: the result has success = false and a
\* reason
C23_NoOpIsNotSuccess ==
  (patch.pc = "done" /\ patch.isFinal /\ patch.result.content = patch.originalContent)
    => ~patch.result.success /\ patch.result.reason # ""

(***************************************************************************)
(* Properties of the text normalisers                                      *)
(***************************************************************************)
\* C24: normalizeToolMarkers followed by normalizeBrokenXmlClosings, run on
\* its own output, returns that output unchanged
C24_NormalizationIdempotent ==
  normalizer.pc = "twice" => normalizer.twice = normalizer.once

(***************************************************************************)
(* Properties of the preview preflight                                     *)
(***************************************************************************)
\* The entry candidates of the checked project that have content other
\* than white space, as positions in the order of the candidates
RunnableEntries ==
  {i \in 1..Len(entryCandidates) :
     /\ entryCandidates[i] \in DOMAIN preflight.files
     /\ \E k \in 1..Len(preflight.files[entryCandidates[i]]) :
          ~IsSpace(preflight.files[entryCandidates[i]][k])}

HasWarningNote(result, tag) == \E i \in 1..Len(result.warnings) : result.warnings[i].tag = tag

\* C26: runPreviewPreflight reports ok = false exactly when no entry
\* candidate has content; the entry file it reports is the first candidate
\* of the order that has; a missing index.html and a missing root mount are
\* not fatal: each gives a synthetic index.html with the mount and a warning
C26_PreflightFatalOnlyWithoutEntry ==
  preflight.pc = "done" =>
    /\ preflight.result.ok <=> RunnableEntries # {}
    /\ preflight.result.ok <=> preflight.result.fatalErrors = <<>>
    /\ RunnableEntries = {} => preflight.result.entryFile = NoFile
    /\ RunnableEntries # {} =>
         /\ preflight.result.entryFile \in {entryCandidates[i] : i \in RunnableEntries}
         /\ \A i \in RunnableEntries, k \in 1..Len(entryCandidates) :
              entryCandidates[k] = preflight.result.entryFile => k <= i
    /\ "index.html" \notin DOMAIN preflight.files =>
         /\ HasWarningNote(preflight.result, "missing_index_html_auto_healed")
         /\ Has(preflight.result.syntheticIndexHtml, RootMount)
    /\ ("index.html" \in DOMAIN preflight.files
          /\ ~Has(preflight.files["index.html"], RootMount)) =>
         /\ HasWarningNote(preflight.result, "missing_root_mount_auto_healed")
         /\ Has(preflight.result.syntheticIndexHtml, RootMount)

\* A project without index.html whose index.tsx is blank and whose
\* src/main.tsx has content: the preflight passes with src/main.tsx as the
\* entry file and heals the missing index.html
C26_Witness ==
  /\ preflight.pc = "done"
  /\ "index.html" \notin DOMAIN preflight.files
  /\ "index.tsx" \in DOMAIN preflight.files
  /\ preflight.result.ok
  /\ preflight.result.entryFile = "src/main.tsx"
  /\ preflight.result.autoHealed = <<"index.html">>

\* The candidates that remain, in the order of the pool, without the
\* selected one
OtherRemaining ==
  SelectSeq(send.last.pool, LAMBDA c : c \in Remaining /\ c # send.last.selected)

\* The runner-up is the first of the other candidates that no other one
\* outscores
IsRunnerUp(i) ==
  /\ \A k \in 1..Len(OtherRemaining) : OtherRemaining[i].score >= OtherRemaining[k].score
  /\ \A k \in 1..(i - 1) : OtherRemaining[k].score < OtherRemaining[i].score

\* The runner-up is within 30 points of the selected candidate, changed
\* files and has no new validation error
CloseAndClean(c) ==
  /\ send.last.selected.score - c.score <= 30
  /\ c.changed
  /\ ~c.regression

\* C30: after the selection of a candidate an alternative is pending exactly
\* when there is a runner-up other than the selected candidate whose score
\* is within 30 points of the top score, that changed files and has no new
\* validation error; the pending alternative is that runner-up
C30_RunnerUpRetained ==
  send.pc = "judged" =>
    /\ send.last.pendingApplyCandidate # NoPending <=>
         \E i \in 1..Len(OtherRemaining) : IsRunnerUp(i) /\ CloseAndClean(OtherRemaining[i])
    /\ \A i \in 1..Len(OtherRemaining) :
         IsRunnerUp(i) /\ CloseAndClean(OtherRemaining[i])
           => send.last.pendingApplyCandidate = OtherRemaining[i].label

\* The stream snapshot is kept as the alternative of the selected final
\* parse, and the baseline, which changed nothing, is not
C30_Witness ==
  /\ send.pc = "judged"
  /\ send.last.selected.label = "final"
  /\ send.last.pendingApplyCandidate = "stream"
  /\ Len(send.last.pool) = 3

\* A runner-up that changed files without a new validation error and is
\* more than 30 points below the selected candidate: nothing is pending
C30_WitnessFar ==
  /\ send.pc = "judged"
  /\ send.last.pendingApplyCandidate = NoPending
  /\ \E i \in 1..Len(OtherRemaining) :
       /\ IsRunnerUp(i)
       /\ OtherRemaining[i].changed
       /\ ~OtherRemaining[i].regression
       /\ send.last.selected.score - OtherRemaining[i].score > 30

(***************************************************************************)
(* Properties of the auto-repair loop                                      *)
(***************************************************************************)
\* Every attempt without a usable edit failed with another signature than
\* the attempt before it
NoTwoAlike ==
  \A i \in 1..(Len(repairLoop.signatures) - 1) : repairLoop.signatures[i] # repairLoop.signatures[i + 1]

\* C27: while no two consecutive attempts fail with the same signature,
\* alternating signatures included, the repeated-signature stop does not
\* happen: an attempt without a usable edit is followed by a repair until
\* the budget of repair attempts is used up
C27_AlternationRunsToBudget ==
  (repairLoop.pc \in {"judged", "done"} /\ NoTwoAlike /\ ~repairLoop.hasUsableEdits) =>
    /\ ~repairLoop.repeatedRepairSignature
    /\ repairLoop.shouldAutoRepair <=> repairLoop.repairAttempt < repairLoop.autoRepairAttempts
    /\ repairLoop.pc = "done" => repairLoop.repairAttempt = repairLoop.autoRepairAttempts

\* The signatures of the primary attempt and of three repairs alternate
\* between two values and the request ends with its budget of 3 used up
C27_Witness ==
  /\ repairLoop.pc = "done"
  /\ repairLoop.autoRepairAttempts = DEFAULT_AUTO_REPAIR_ATTEMPTS
  /\ repairLoop.repairAttempt = DEFAULT_AUTO_REPAIR_ATTEMPTS
  /\ Len(repairLoop.signatures) = 4
  /\ repairLoop.signatures[1] = repairLoop.signatures[3]
  /\ repairLoop.signatures[2] = repairLoop.signatures[4]
  /\ repairLoop.signatures[1] # repairLoop.signatures[2]
  /\ ~repairLoop.repeatedRepairSignature

(***************************************************************************)
(* Properties of the parser confidence                                     *)
(***************************************************************************)
\* The judged attempt has low parser confidence and neither hard issues nor
\* runtime issues
OnlyLowConfidence ==
  /\ send.pc = "judged"
  /\ send.last.lowConfidence
  /\ ~send.last.hasHardIssues
  /\ ~send.last.hasRuntimeIssues

\* C25: an attempt whose only finding is a parser confidence below 0.35 asks
\* for no repair, and a second attempt follows it only as the one that the
\* mode always-best-of-2 runs after every primary attempt; otherwise the
\* next step accepts the selected files and ends the request in finalize
\* with the LOW_CONFIDENCE warning in its summary
C25_LowConfidenceNeverBlocks ==
  /\ [](OnlyLowConfidence =>
          /\ ~send.last.askedRepair
          /\ ~send.last.shouldAutoRepair
          /\ send.last.shouldRetry <=>
                (send.qualityMode = "always-best-of-2" /\ send.attemptType = "primary")
          /\ ~send.last.shouldRetry => ENABLED SendFinalize)
  /\ [][(OnlyLowConfidence /\ ~send.last.shouldRetry) =>
          /\ send'.pc = "done"
          /\ send'.files = send.last.verifiedFiles
          /\ send'.runPhase = "finalize"
          /\ ~send'.isLoading
          /\ send'.lastSummary = Summary({LowConfidenceWarning})]_vars

\* A request has ended in finalize after an attempt whose only finding was
\* low parser confidence and that changed App.tsx
C25_Witness ==
  /\ send.pc = "done"
  /\ send.runPhase = "finalize"
  /\ send.last.kind = "judged"
  /\ send.last.lowConfidence
  /\ ~send.last.hasHardIssues
  /\ ~send.last.hasRuntimeIssues
  /\ send.last.changedFiles > 0
  /\ send.files # send.originalFiles
  /\ send.lastSummary = Summary({LowConfidenceWarning})

(***************************************************************************)
(* Properties of the run phases                                            *)
(***************************************************************************)
\* The place of a phase in plan -> patch -> validate -> preview-check ->
\* repair -> finalize | failed
PhaseRank(phase) ==
  CASE phase = "idle" -> 0
    [] phase = "plan" -> 1
    [] phase = "patch" -> 2
    [] phase = "validate" -> 3
    [] phase = "preview-check" -> 4
    [] phase = "repair" -> 5
    [] phase \in {"finalize", "failed"} -> 6

\* handleSend starts the second attempt of the request
SecondAttemptStarts ==
  /\ send.pc = "judged"
  /\ send.last.shouldRetry
  /\ send'.attemptType = "retry"
  /\ send'.attemptIndex = send.attemptIndex + 1

OwnEmission ==
  /\ stream.pc \in {"streaming", "returned"}
  /\ stream.update # NoUpdate

\* C21: within one call of generateAppCode the base file set stays the one
\* the call began with, and every emitted update, the final one included,
\* holds the files that parsing the whole content received so far against
\* that base gives: no emission builds on the files of an earlier one
C21_EmissionsParseFromBase ==
  /\ stream.pc # "idle" => stream.baseFiles = stream.currentFiles
  /\ OwnEmission =>
       stream.update.files =
         parseResponse(stream.update.rawText, stream.currentFiles, stream.update.isFinal,
                       stream.update.isFinal \/ stream.streamApplyEnabled,
                       stream.update.parseMode).newFiles
  /\ stream.pc = "returned" =>
       /\ stream.update.isFinal
       /\ stream.update.rawText = Join(stream.arrived, <<>>)

\* With live apply an intermediate emission has applied the operation of
\* the stream to its snapshot, and the final emission is still to come
C21_Witness ==
  /\ stream.pc = "streaming"
  /\ stream.deltas = <<>>
  /\ stream.streamApplyEnabled
  /\ stream.received.updates >= 2
  /\ stream.update # NoUpdate
  /\ ~stream.update.isFinal
  /\ stream.update.appliedOps = 1
  /\ FilesGet(stream.update.files, "App.tsx") = <<"x", NL, "z", NL, "y">>
  /\ stream.baseFiles = stream.currentFiles

\* Whether an emission after each delta that has arrived would have seen a
\* marker
sawMarkersAtEveryDelta(S) ==
  \E k \in 1..Len(S.arrived) :
    Len(parseResponse(Join(SubSeq(S.arrived, 1, k), <<>>), S.currentFiles, FALSE,
                      S.streamApplyEnabled,
                      IF S.streamApplyEnabled THEN "final-full" ELSE "stream-lite").markers) > 0

\* Whether the end of the stream re-generates, for a value of sawMarkers
regeneratesWith(S, sawMarkers) ==
  /\ S.retryAttempt < INTERNAL_RETRY_LIMIT
  /\ \/ specialTokensOnly(S)
     \/ /\ ~sawMarkers
        /\ probeAsksRetry(S, parseResponse(S.rawContent, S.currentFiles, FALSE, TRUE,
                                           "final-full"))

\* C22: for the deltas that arrived, the end of the stream decides as it
\* does when every delta is followed by an emission, whatever emissions the
\* cadence made: the same choice between the final result and a
\* re-generation, and a final update that is the parse of the whole text
C22_CadenceIndependent ==
  stream.pc \in {"regenerate", "returned"} =>
    /\ (stream.pc = "regenerate") = regeneratesWith(stream, sawMarkersAtEveryDelta(stream))
    /\ stream.pc = "returned" =>
         /\ stream.update.isFinal
         /\ stream.update.files =
              parseResponse(Join(stream.arrived, <<>>), stream.currentFiles, TRUE, TRUE,
                            "final-full").newFiles

\* C29: when generateAppCode returns, the deltas handed to onStreamUpdate,
\* put together in the order of the emissions, are the raw text and the
\* cleaned text of the final update
C29_DeltasRebuildChannels ==
  stream.pc = "returned" =>
    /\ stream.received.raw = stream.update.rawText
    /\ stream.received.clean = stream.update.cleanText

\* The raw channel alone: its deltas rebuild the raw text of the final update
C29_RawChannelRebuilt ==
  stream.pc = "returned" => stream.received.raw = stream.update.rawText

(***************************************************************************)
(* Properties of the read loop                                             *)
(***************************************************************************)
WellFormedKinds == {"event", "crlf", "line"}

\* the content deltas of the well-formed data frames, in the order sent
RECURSIVE ContentOfFrames(_)
ContentOfFrames(frames) ==
  IF frames = <<>> THEN <<>>
  ELSE (IF Head(frames).kind \in WellFormedKinds THEN <<Head(frames).content>> ELSE <<>>)
         \o ContentOfFrames(Tail(frames))

IsPrefixOf(s, t) == Len(s) <= Len(t) /\ SubSeq(t, 1, Len(s)) = s

\* C31: however the body is cut into chunks, the content accumulated by the
\* read loop is the in-order concatenation of the content deltas of the
\* well-formed data frames: while reading it is a prefix of it, and at the
\* end it is all of it; a frame whose JSON does not decode adds nothing and
\* the frames after it still arrive.
C31_ContentIsConcatenation ==
  /\ IsPrefixOf(reader.rawContent, ContentOfFrames(reader.frames))
  /\ reader.pc = "closed" => reader.rawContent = ContentOfFrames(reader.frames)

\* an undecodable frame and then a frame with CR LF line ends, read in more
\* chunks than there are frames (so a frame was cut and reassembled), and
\* the delta of the later frame arrived
C31_Witness ==
  /\ reader.pc = "closed"
  /\ Len(reader.frames) = 2
  /\ reader.frames[1].kind = "undecodable"
  /\ reader.frames[2].kind = "crlf"
  /\ reader.withDone
  /\ reader.chunks > 4
  /\ reader.rawContent = <<"a">>

(***************************************************************************)
(* Properties of the invocations of handleSend                             *)
(***************************************************************************)
\* C32: at most one run is generating at any time, and the writes of two
\* runs to the project files are never interleaved: once a second run has
\* written, the first writes no more.
C32_OneRunInFlight ==
  /\ Cardinality(generating(session)) <= 1
  /\ \A i, j, k \in 1..Len(session.filesWrittenBy) :
       (i < j /\ j < k /\ session.filesWrittenBy[i] = session.filesWrittenBy[k]) =>
         session.filesWrittenBy[j] = session.filesWrittenBy[i]

\* an invocation made from a render that shows the loading flag starts
\* nothing: a run only ever overlaps another when it was invoked from a
\* render older than the flag
SessionGuardOnRenderedFlag ==
  [][(session.renderLoading /\ session'.invocations # session.invocations) =>
       session'.runs = session.runs]_vars

(***************************************************************************)
(* Properties of ask mode                                                  *)
(***************************************************************************)
\* C33: in a call with applyToWorkspace = false the project files are, at
\* every stream update and at the end, the files the request started from,
\* whatever the updates and the result hold and whether or not live apply
\* is enabled; the call is the only attempt of the request, and when
\* generateAppCode has returned the run ends in the phase finalize.
C33_AskModeLeavesFiles ==
  ~send.applyToWorkspace =>
    /\ send.files = send.originalFiles
    /\ Len(send.attempts) <= 1
    /\ (send.pc = "done" /\ send.last.kind = "advisory") =>
         /\ send.runPhase = "finalize"
         /\ ~send.isLoading
         /\ send.attempts = <<"primary">>

\* an ask call with live apply enabled has ended, updates were streamed, and
\* the result it ignored carried applied operations and changed files
C33_Witness ==
  /\ ~send.applyToWorkspace
  /\ send.liveApplyDuringStream
  /\ send.pc = "done"
  /\ send.updates > 0
  /\ send.last.kind = "advisory"
  /\ send.last.result.appliedOps > 0
  /\ send.last.result.files # send.originalFiles
  /\ send.last.result.failedPatches = <<>>

(***************************************************************************)
(* Properties of the assets and vendor paths of a workspace                *)
(***************************************************************************)
ExcludedPaths(files) == {name \in DOMAIN files : isExcludedFromProtocol(files, name)}

\* C34: the asset entries and vendor paths of the workspace are still there,
\* with their content, when a request has ended, and the changed files of
\* a judged attempt (the files selected against the files it started from)
\* never hold one of them.
C34_AssetsPreserved ==
  /\ send.pc = "done" =>
       \A name \in ExcludedPaths(send.originalFiles) :
         name \in DOMAIN send.files /\ send.files[name] = send.originalFiles[name]
  /\ send.pc = "judged" =>
       getChangedFiles(send.sourceFiles, send.last.verifiedFiles)
         \cap ExcludedPaths(send.originalFiles) = {}

(***************************************************************************)
(* Properties of the number of model requests                              *)
(***************************************************************************)
\* C35: one call of generateAppCode by handleSend re-generates at most
\* INTERNAL_RETRY_LIMIT times, so it sends at most INTERNAL_RETRY_LIMIT + 1
\* model requests; one user request has at most 2 + autoRepairAttempts
\* attempts, hence at most 3 * (2 + autoRepairAttempts) model requests.
C35_ModelRequestsBounded ==
  /\ requests.retryAttempt <= INTERNAL_RETRY_LIMIT
  /\ requests.callRequests <= INTERNAL_RETRY_LIMIT + 1
  /\ requests.attempts <= 2 + requests.autoRepairAttempts
  /\ requests.modelRequests <= 3 * (2 + requests.autoRepairAttempts)

\* a request with the default repair budget that has used all of it: the
\* primary attempt, the second attempt and three repairs, three model
\* requests each
C35_Witness ==
  /\ requests.pc = "done"
  /\ requests.autoRepairAttempts = DEFAULT_AUTO_REPAIR_ATTEMPTS
  /\ requests.repairAttempt = DEFAULT_AUTO_REPAIR_ATTEMPTS
  /\ requests.attemptIndex = 2
  /\ requests.callRequests = INTERNAL_RETRY_LIMIT + 1
  /\ requests.modelRequests = 3 * (2 + DEFAULT_AUTO_REPAIR_ATTEMPTS)

\* The final pass of parseResponse over the whole content of the stream
\* finds no marker and changes a file
finalPassApplies(S) ==
  Bind(parseResponse(S.rawContent, S.baseFiles, TRUE, TRUE, "final-full"), LAMBDA P :
    Len(P.markers) = 0 /\ P.newFiles # S.baseFiles)

\* C36: an output without markers that the fallback inference of the final
\* pass can apply is never discarded for another generation
C36_MarkerlessOutputKept ==
  stream.pc = "regenerate" => ~finalPassApplies(stream)

\* An inline replace without markers was discarded by the first call
C36_Discarded ==
  /\ stream.pc = "regenerate"
  /\ stream.retryAttempt = 0
  /\ stream.rawContent = Ser("replace", <<"x">>, <<"z">>)
  /\ finalPassApplies(stream)

\* The third call returns the edit of the same kind of output applied
C36_AppliedAtLimit ==
  /\ stream.pc = "returned"
  /\ stream.retryAttempt = INTERNAL_RETRY_LIMIT
  /\ ~stream.sawMarkers
  /\ stream.update.files # stream.baseFiles

\* C37: a parse that is not final of a text without markers returns the
\* base files, appliedOps 0 and no failure, whatever the text holds
C37_IntermediateMarkerlessReadOnly ==
  (parse.pc = "done" /\ ~parse.isFinal /\ Len(parse.markers) = 0) =>
    /\ parse.newFiles = parse.baseFiles
    /\ parse.appliedOpsTotal = 0
    /\ parse.touchedFiles = {}
    /\ parse.failedPatches = <<>>

\* An intermediate parse with applyToFiles has returned for inline
\* replace operations without a marker that the final pass applies
C37_Witness ==
  /\ parse.pc = "done"
  /\ ~parse.isFinal
  /\ parse.applyToFiles
  /\ Len(parse.markers) = 0
  /\ \E i \in 1..Len(parse.textClean) : parse.textClean[i] = "<replace>"
  /\ parseResponse(parse.contentStream, parse.baseFiles, TRUE, TRUE, "final-full").newFiles
       # parse.baseFiles

\* The candidates of the judged attempt under a label
candidatesLabelled(label) ==
  {send.last.pool[i] : i \in {k \in 1..Len(send.last.pool) : send.last.pool[k].label = label}}

\* C38: the stream candidate of a judged attempt never holds the file set
\* of the final candidate
C38_StreamCandidateIsEarlier ==
  (send.pc = "judged" /\ send.last.kind = "judged") =>
    \A f \in candidatesLabelled("final"), s \in candidatesLabelled("stream") :
      f.files # s.files

\* The file set of a final parse with a failed patch was scored a second
\* time as the stream candidate, without the failure, and scored higher
C38_ScoredTwice ==
  /\ send.pc = "judged"
  /\ send.last.kind = "judged"
  /\ \E f \in candidatesLabelled("final"), s \in candidatesLabelled("stream") :
       /\ f.files = s.files
       /\ s.score > f.score

\* The bundle refs, the two iframe urls, the cleanup queue and the errors
\* of the run
bundlesOf(P) ==
  <<P.activeBundle, P.stagedBundle, P.lastGoodBundle, P.pendingPreviousBundle,
    P.previewUrl, P.pendingPreviewUrl, P.cleanupQueue, P.revoked, P.currentRunErrors>>

\* The step handled a message of the preview harness
MessageHandled == preview'.handled.type \in {"test-report", "error", "log"}

\* The step saw the candidate fail: a report for the current run that did
\* not pass, a fatal error of the current run, or a build given up
CandidateFailed ==
  \/ /\ MessageHandled
     /\ preview'.handled.runId = preview.currentRunId
     /\ \/ preview'.handled.type = "test-report" /\ ~reportPasses(preview, preview'.handled)
        \/ preview'.handled.type = "error" /\ isFatalError(preview'.handled.content)
  \/ preview'.handled.type = "build" /\ preview'.handled.outcome # "staged"

C39_Step ==
  /\ preview'.lastGoodBundle # preview.lastGoodBundle =>
       /\ preview'.handled.type = "test-report"
       /\ preview'.handled.ok
       /\ preview'.handled.runId = preview.currentRunId
       /\ preview.currentRunErrors = {}
       /\ preview.stagedBundle = preview'.handled.runId
       /\ preview'.lastGoodBundle = preview.stagedBundle
  /\ (MessageHandled /\ preview'.handled.runId # preview.currentRunId) =>
       bundlesOf(preview') = bundlesOf(preview)
  /\ (CandidateFailed /\ preview.lastGoodFallbackEnabled
        /\ preview.lastGoodBundle # NoBundle) =>
       /\ preview'.previewUrl = preview.lastGoodBundle
       /\ preview'.lastGoodBundle = preview.lastGoodBundle

\* C39: the last-good bundle is replaced only by the staged bundle of the
\* current run on a passed report with no error recorded; a message with a
\* stale run id changes no bundle; and when the candidate fails with the
\* fallback enabled and a last-good bundle present, that bundle is displayed
C39_LastGoodFallback == [][C39_Step]_vars

\* The report of run 2 failed with the fallback enabled: the bundle of run
\* 1, last good, is displayed, and the candidate is given up
C39_Witness ==
  /\ preview.pc = "mounted"
  /\ preview.handled.type = "test-report"
  /\ ~preview.handled.ok
  /\ preview.handled.runId = 2
  /\ preview.currentRunId = 2
  /\ preview.lastGoodFallbackEnabled
  /\ preview.lastGoodBundle = 1
  /\ preview.previewUrl = 1
  /\ preview.stagedBundle = NoBundle
  /\ 2 \in preview.cleanupQueue \cup preview.revoked
  /\ preview.status.usedLastGood

\* A report of run 1 arrived while the candidate of run 2 was staged
C39_StaleReport ==
  /\ preview.pc = "mounted"
  /\ preview.handled.type = "test-report"
  /\ preview.handled.ok
  /\ preview.handled.runId = 1
  /\ preview.currentRunId = 2
  /\ preview.stagedBundle = 2
  /\ preview.lastGoodBundle = NoBundle

\* The active, the displayed and the last-good bundle are one
PreviewShowsLastGood ==
  preview.pc = "mounted" =>
    /\ preview.activeBundle = preview.lastGoodBundle
    /\ preview.previewUrl = preview.lastGoodBundle
    /\ preview.lastGoodBundle \notin preview.revoked \ {NoBundle}

====
